---- MODULE Spec2Model ----
(***************************************************************************)
(* A model of mdv/markdownviewer.py: the palette (set_theme, main's theme  *)
(* setup and the module globals main writes), the table splitter           *)
(* (split_blocks), the reflow (rewrap), the block formatter                *)
(* (AnsiPrinter.run.formatter) and the docstring extractor                 *)
(* (do_code_hilite).                                                       *)
(***************************************************************************)
EXTENDS Integers, Sequences, FiniteSets, TLC

VARIABLES
    H,               \* the globals H1..H5, a 5-tuple of ansi colors
    CH,              \* the globals CH1..CH5
    code_hl_tokens,  \* token kind -> color, as build_hl_by_token left it
    themes,          \* the global dict themes (pre-loaded, or read from the file)
    catalog_file,    \* ansi_tables.json: [readable, content]
    environ,         \* os.environ, the four theme variables
    term_columns,    \* the global term_columns
    def_lexer,       \* the global def_lexer
    guess_lexer,     \* the global guess_lexer
    show_links,      \* the global show_links
    admons,          \* the global dict admons: keyword -> color name
    roller,          \* the theme roller's pending main(**args) calls
    pc,              \* where the running main is: "idle", "code" or "render"
    table,           \* the table node the formatter is given: [w, lines, hir]
    tout,            \* what the formatter's table branch made of it
    rw_in,           \* rewrap's arguments: [t, tag, indpref]
    rw_out,          \* rewrap's result
    doc,             \* the document tree the formatter runs on
    todo,            \* the formatter's pending calls, the next one first
    out,             \* the out lists: the _cell lists of fmt, then the run's out
    tcells,          \* the cells made so far of the tables being formatted
    ferr,            \* the exception that ended the formatter's run, or ""
    hl_md,           \* the source text do_code_hilite is given, as lines
    hl_out,          \* do_code_hilite's result
    sa_in,           \* style_ansi's arguments: [lang, code]
    sa_out,          \* style_ansi's result
    ansi,            \* main's rendered text before set_hr_widths, as characters
    mret,            \* what main made of it and returned
    mon_fs,          \* the monitored directory: file name -> size
    mon,             \* monitor_dir: [exts, ftree, first, shown, prev, cur]
    last             \* the latest call: its arguments and what it did

paletteVars ==
    <<H, CH, code_hl_tokens, themes, catalog_file, environ, term_columns,
      def_lexer, guess_lexer, show_links, admons, roller, pc, last>>

tableVars == <<table, tout>>

rewrapVars == <<rw_in, rw_out>>

fmtVars == <<doc, todo, out, tcells, ferr>>

hiliteVars == <<hl_md, hl_out>>

styleVars == <<sa_in, sa_out>>

returnVars == <<ansi, mret>>

monVars == <<mon_fs, mon>>

utilVars == <<styleVars, returnVars, monVars>>

\* what the palette's actions leave alone
notPalette == <<tableVars, rewrapVars, fmtVars, hiliteVars, utilVars>>

vars == <<paletteVars, tableVars, rewrapVars, fmtVars, hiliteVars, utilVars>>

(***************************************************************************)
(* Python values                                                           *)
(***************************************************************************)
\* Python's None (every other value of the model is a string or a number)
NoneV == "None_"

\* Python truth of a string-or-None value
Truthy(x) == x # NoneV /\ x # ""

(***************************************************************************)
(* Config (module level)                                                   *)
(***************************************************************************)
\* H1..H5 as the module sets them
DefaultH == <<231, 153, 117, 109, 65>>

R_ == 124
L_ == 59
T_ == 188

\* term_columns when neither COLUMNS nor stty gives a width
ImportTermColumns == 80

ImportDefLexer == "python"

\* the dict admons as the module builds it
ImportAdmons ==
    [k \in {"note", "warning", "attention", "hint", "summary", "question",
            "danger", "dev", "caution"} |->
        CASE k = "note" -> "H3"
          [] k = "warning" -> "R"
          [] k = "attention" -> "H1"
          [] k = "hint" -> "H4"
          [] k = "summary" -> "H1"
          [] k = "question" -> "H5"
          [] k = "danger" -> "R"
          [] k = "dev" -> "H5"
          [] k = "caution" -> "H2"]

\* the dict code_hl: token kind -> the name of a color global
code_hl ==
    [k \in {"Keyword", "Name", "Comment", "String", "Error", "Number",
            "Operator", "Generic"} |->
        CASE k = "Keyword" -> "CH3"
          [] k = "Name" -> "CH1"
          [] k = "Comment" -> "L"
          [] k = "String" -> "CH4"
          [] k = "Error" -> "R"
          [] k = "Number" -> "CH4"
          [] k = "Operator" -> "CH5"
          [] k = "Generic" -> "CH2"]

\* globals()[name] for the color globals, in the globals g
ColorGlobal(g, name) ==
    CASE name = "H1" -> g.H[1] [] name = "H2" -> g.H[2] [] name = "H3" -> g.H[3]
      [] name = "H4" -> g.H[4] [] name = "H5" -> g.H[5]
      [] name = "CH1" -> g.CH[1] [] name = "CH2" -> g.CH[2]
      [] name = "CH3" -> g.CH[3] [] name = "CH4" -> g.CH[4]
      [] name = "CH5" -> g.CH[5]
      [] name = "R" -> R_ [] name = "L" -> L_ [] name = "T" -> T_

\* the module globals as one record, for the operators below
Globals ==
    [H |-> H, CH |-> CH, code_hl_tokens |-> code_hl_tokens, themes |-> themes,
     environ |-> environ, term_columns |-> term_columns,
     def_lexer |-> def_lexer, guess_lexer |-> guess_lexer,
     show_links |-> show_links, admons |-> admons]

(***************************************************************************)
(* Theme catalogs the model draws from                                     *)
(***************************************************************************)
\* number of colors of a well-formed theme: the "!= 5" of set_theme
ThemeLen == 5

ColorsA == <<1, 2, 3, 4, 5>>
ColorsB == <<6, 7, 8, 9, 10>>

EmptyCatalog == [n \in {} |-> NoneV]

\* catalogs: theme name -> entry; an entry is a dict with or without 'ct'
Catalogs ==
    << EmptyCatalog,
       [n \in {"t1", "t2"} |->
           IF n = "t1" THEN [name |-> "A", ct |-> ColorsA]
                       ELSE [name |-> "B", ct |-> ColorsB]],
       [n \in {"t1", "t2"} |->
           IF n = "t1" THEN [name |-> "A", ct |-> ColorsA]
                       ELSE [name |-> "short", ct |-> <<6, 7, 8, 9>>]],
       [n \in {"t1", "t2"} |->
           IF n = "t1" THEN [name |-> "long", ct |-> <<1, 2, 3, 4, 5, 6>>]
                       ELSE [name |-> "B", ct |-> ColorsB]],
       [n \in {"t1"} |-> [name |-> "noct"]],
       [n \in {"t2"} |-> [name |-> "B", ct |-> ColorsB]] >>

ExplicitThemes == {NoneV, "default", "random", "t1", "t2", "nosuch"}

EnvNames == {"MDV_THEME", "AXC_THEME", "MDV_CODE_THEME", "AXC_CODE_THEME"}

(***************************************************************************)
(* build_hl_by_token, read_themes, set_theme                               *)
(***************************************************************************)
\* pygments is importable
have_pygments == TRUE

build_hl_by_token(g) ==
    IF ~have_pygments THEN g
    ELSE [g EXCEPT !.code_hl_tokens =
             [k \in DOMAIN code_hl |-> ColorGlobal(g, code_hl[k])]]

\* read_themes: [themes, raised]
read_themes(g, file) ==
    IF DOMAIN g.themes # {} THEN [themes |-> g.themes, raised |-> ""]
    ELSE IF ~file.readable THEN [themes |-> g.themes, raised |-> "IOError"]
    ELSE [themes |-> file.content, raised |-> ""]

\* dec[bool(for_code)]
dec(for_code) ==
    IF for_code
    THEN [dflt |-> "default", on_dflt |-> NoneV,
          env |-> <<"MDV_CODE_THEME", "AXC_CODE_THEME">>]
    ELSE [dflt |-> NoneV, on_dflt |-> "random",
          env |-> <<"MDV_THEME", "AXC_THEME">>]

\* ThemeFromEnv looking at the second environment variable first
ThemeFromEnv_AxcFirst(theme, for_code, env) ==
    LET d == dec(for_code) IN
    IF theme # d.dflt THEN theme
    ELSE IF env[d.env[2]] # "" THEN env[d.env[2]]
    ELSE IF env[d.env[1]] # "" THEN env[d.env[1]]
    ELSE theme

\* lines 312-317: the first non-empty of the two environment variables
ThemeFromEnv(theme, for_code, env) ==
    LET d == dec(for_code) IN
    IF theme # d.dflt THEN theme
    ELSE IF env[d.env[1]] # "" THEN env[d.env[1]]
    ELSE IF env[d.env[2]] # "" THEN env[d.env[2]]
    ELSE theme

\* lines 312-319: the theme name set_theme goes on with
ResolveTheme(theme, for_code, env) ==
    LET t1 == ThemeFromEnv(theme, for_code, env) IN
    IF t1 = dec(for_code).dflt THEN dec(for_code).on_dflt ELSE t1

\* set_theme(theme, for_code): [g, raised, theme, name]: the globals after,
\* the exception that leaves the call (or ""), the theme name after lines
\* 312-319 and the catalog key looked up; rnd is the key randint draws
set_theme(g, theme, for_code, file, rnd) ==
    LET th == ResolveTheme(theme, for_code, g.environ)
        fin(gg) == IF for_code THEN build_hl_by_token(gg) ELSE gg
        ret(gg, raised, name) ==
            [g |-> fin(gg), raised |-> raised, theme |-> th, name |-> name]
    IN
    IF ~Truthy(th) THEN ret(g, "", NoneV)
    ELSE
      LET rd == read_themes(g, file)
          g1 == [g EXCEPT !.themes = rd.themes]
      IN
      IF rd.raised # "" THEN ret(g1, rd.raised, NoneV)
      ELSE IF th = "random" /\ DOMAIN g1.themes = {} THEN ret(g1, "ValueError", NoneV)
      ELSE
        LET name == IF th = "random" THEN rnd ELSE th IN
        IF name \notin DOMAIN g1.themes THEN ret(g1, "", name)
        ELSE
          LET t == g1.themes[name] IN
          IF DOMAIN t = {} THEN ret(g1, "", name)
          ELSE IF "ct" \notin DOMAIN t THEN ret(g1, "TypeError", name)
          ELSE IF Len(t.ct) # ThemeLen THEN ret(g1, "", name)
          ELSE
            LET cols == <<t.ct[1], t.ct[2], t.ct[3], t.ct[4], t.ct[5]>> IN
            IF for_code THEN ret([g1 EXCEPT !.CH = cols], "", name)
            ELSE ret([g1 EXCEPT !.H = cols], "", name)

\* the draws randint can make over the catalog set_theme will read
RandomDraws(g, file) ==
    LET t == read_themes(g, file).themes IN
    IF DOMAIN t = {} THEN {NoneV} ELSE DOMAIN t

(***************************************************************************)
(* main: lines 886-964 (globals and theme setup) and the render's use of   *)
(* the globals.  The md text is kept as what the render takes from it      *)
(* here: kw, an admonition keyword that is not in admons (or None).        *)
(* cols = 0 stands for cols=None: "if cols:" treats both alike.            *)
(* ~/.mdv.py is taken not to exist; bg only sets a global that col() never *)
(* reads into its result.                                                  *)
(***************************************************************************)
NoUse == [term_columns |-> 0, def_lexer |-> "", admons |-> {}]

\* what one render reads of the globals main does not always set
RenderUse(g) ==
    [term_columns |-> g.term_columns, def_lexer |-> g.def_lexer,
     admons |-> DOMAIN g.admons]

\* formatter lines 631-633 as the render leaves admons: an unknown keyword is
\* registered with the color of admons.values()[0] (first: the dict's first value)
RegisterAdmon(g, kw, first) ==
    IF Truthy(kw) /\ kw \notin DOMAIN g.admons
    THEN [g EXCEPT !.admons =
             [k \in DOMAIN g.admons \cup {kw} |->
                 IF k = kw THEN first ELSE g.admons[k]]]
    ELSE g

\* lines 892-894
SetDefLexer(g, a) ==
    IF Truthy(a.c_def_lexer) THEN [g EXCEPT !.def_lexer = a.c_def_lexer] ELSE g

\* lines 956-960: the code theme main asks set_theme for (None: no call)
CodeThemeArg(a) ==
    LET c1 == IF ~Truthy(a.c_theme)
              THEN (IF Truthy(a.theme) THEN a.theme ELSE "default")
              ELSE a.c_theme
    IN IF c1 = "None" THEN NoneV ELSE c1

\* lines 939-943: the globals main sets from its arguments before the themes
SetColsAndLinks(g, a) ==
    LET g1 == IF a.cols # 0 THEN [g EXCEPT !.term_columns = a.cols] ELSE g
    IN [g1 EXCEPT !.show_links = a.display_links]

\* lines 919-923: the roller empties the environment variables
RollerEnv(g, a) ==
    [g EXCEPT !.environ =
        [k \in DOMAIN g.environ |->
            IF \/ a.c_theme = "all" /\ k \in {"AXC_CODE_THEME", "MDV_CODE_THEME"}
               \/ a.theme = "all" /\ k \in {"AXC_THEME", "MDV_THEME"}
            THEN "" ELSE g.environ[k]]]

\* lines 926-936: the calls main(**args) of the roller, one per theme in order
RollerCalls(a, order) ==
    [i \in 1..Len(order) |->
        IF a.theme = "all" THEN [a EXCEPT !.theme = order[i]]
        ELSE [a EXCEPT !.c_theme = order[i]]]

\* the orders list(themes.items()) can have
Orders(t) ==
    {o \in [1..Cardinality(DOMAIN t) -> DOMAIN t] :
        \A i, k \in DOMAIN o : i # k => o[i] # o[k]}

IsRoller(a) == a.c_theme = "all" \/ a.theme = "all"

\* the value of a dict's .values()[0]
FirstValues(d) == {d[k] : k \in DOMAIN d}

\* the arguments main is called with: every theme and column argument, and
\* the flags and the keyword varied for one choice of themes
MainArgs ==
    {a \in [cols : {0, 40}, theme : {NoneV, "random", "t1", "all"},
            c_theme : {NoneV, "None", "t2", "all"}, c_no_guess : BOOLEAN,
            display_links : BOOLEAN, c_def_lexer : {NoneV, "yaml"},
            kw : {NoneV, "custom"}] :
        (a.c_no_guess \/ a.display_links \/ a.kw # NoneV)
            => (a.theme = "t1" /\ a.c_theme = NoneV)}

NoArgs ==
    [cols |-> 0, theme |-> NoneV, c_theme |-> NoneV, c_no_guess |-> FALSE,
     display_links |-> FALSE, c_def_lexer |-> NoneV, kw |-> NoneV]

(***************************************************************************)
(* Actions of the palette                                                  *)
(***************************************************************************)
SetGlobals(g) ==
    /\ H' = g.H
    /\ CH' = g.CH
    /\ code_hl_tokens' = g.code_hl_tokens
    /\ themes' = g.themes
    /\ environ' = g.environ
    /\ term_columns' = g.term_columns
    /\ def_lexer' = g.def_lexer
    /\ guess_lexer' = g.guess_lexer
    /\ show_links' = g.show_links
    /\ admons' = g.admons

\* a library call set_theme(theme, for_code)
SetTheme ==
    /\ roller = <<>>
    /\ pc = "idle"
    /\ \E theme \in ExplicitThemes, for_code \in BOOLEAN :
         \E rnd \in RandomDraws(Globals, catalog_file) :
           LET r == set_theme(Globals, theme, for_code, catalog_file, rnd) IN
           /\ SetGlobals(r.g)
           /\ last' = [op |-> "set_theme", theme |-> theme, for_code |-> for_code,
                       args |-> NoArgs, raised |-> r.raised, resolved |-> r.theme,
                       name |-> r.name, before |-> [H |-> H, CH |-> CH],
                       use |-> NoUse]
    /\ UNCHANGED <<catalog_file, roller, pc>>
    /\ UNCHANGED notPalette

NoBefore == [H |-> <<>>, CH |-> <<>>]

Call(op, a, raised, use) ==
    [op |-> op, theme |-> a.theme, for_code |-> FALSE, args |-> a,
     raised |-> raised, resolved |-> NoneV, name |-> NoneV,
     before |-> NoBefore, use |-> use]

\* lines 939-951 of main for the arguments a: the globals, then the text theme
MainThemeStep(g, a, rest) ==
    \E rnd \in RandomDraws(g, catalog_file) :
      LET r == set_theme(SetColsAndLinks(g, a), a.theme, FALSE, catalog_file, rnd) IN
      /\ SetGlobals(r.g)
      /\ roller' = IF r.raised # "" THEN <<>> ELSE rest
      /\ pc' = IF r.raised # "" THEN "idle" ELSE "code"
      /\ last' = Call("main", a, r.raised, NoUse)

\* lines 919-937: the roller reads the catalog and queues its calls
StartRoller(g, a, rest) ==
    LET g1 == RollerEnv(g, a)
        rd == read_themes(g1, catalog_file)
    IN \E order \in Orders(rd.themes) :
         /\ SetGlobals([g1 EXCEPT !.themes = rd.themes])
         /\ roller' = IF rd.raised # "" THEN <<>>
                      ELSE RollerCalls(a, order) \o rest
         /\ pc' = "idle"
         /\ last' = Call("roller", a, rd.raised, NoUse)

\* a call main(...) from outside, up to the text theme
Main ==
    /\ roller = <<>>
    /\ pc = "idle"
    /\ \E a \in MainArgs :
         IF IsRoller(a) THEN StartRoller(SetDefLexer(Globals, a), a, <<>>)
         ELSE MainThemeStep(SetDefLexer(Globals, a), a, <<>>)
    /\ UNCHANGED catalog_file
    /\ UNCHANGED notPalette

\* the roller's next call main(**args), up to the text theme
RollerStep ==
    /\ roller # <<>>
    /\ pc = "idle"
    /\ LET a == Head(roller) IN
         IF IsRoller(a) THEN StartRoller(SetDefLexer(Globals, a), a, Tail(roller))
         ELSE MainThemeStep(SetDefLexer(Globals, a), a, Tail(roller))
    /\ UNCHANGED catalog_file
    /\ UNCHANGED notPalette

\* lines 953-963 of the running main: guess_lexer and the code theme
MainCode ==
    /\ pc = "code"
    /\ \E rnd \in RandomDraws(Globals, catalog_file) :
         LET a == last.args
             c == CodeThemeArg(a)
             g == [Globals EXCEPT !.guess_lexer = ~a.c_no_guess]
             r == IF Truthy(c) THEN set_theme(g, c, TRUE, catalog_file, rnd)
                  ELSE [g |-> g, raised |-> ""]
         IN /\ SetGlobals(r.g)
            /\ roller' = IF r.raised # "" THEN <<>> ELSE roller
            /\ pc' = IF r.raised # "" THEN "idle" ELSE "render"
            /\ last' = Call("main", a, r.raised, NoUse)
    /\ UNCHANGED catalog_file
    /\ UNCHANGED notPalette

\* lines 970-1033 of the running main: the render reads the globals and
\* registers the md's unknown admonition keyword; main returns
MainRender ==
    /\ pc = "render"
    /\ \E first \in FirstValues(admons) :
         /\ SetGlobals(RegisterAdmon(Globals, last.args.kw, first))
         /\ last' = Call("main", last.args, "", RenderUse(Globals))
    /\ pc' = "idle"
    /\ UNCHANGED <<catalog_file, roller>>
    /\ UNCHANGED notPalette

EmptyTokens == [k \in {} |-> 0]

NoCall == Call("none", NoArgs, "", NoUse)

\* the module as imported; the catalog is pre-loaded, or empty with the file
\* unreadable or holding a catalog
InitGlobals ==
    /\ H = DefaultH
    /\ CH = DefaultH
    /\ code_hl_tokens = EmptyTokens
    /\ term_columns = ImportTermColumns
    /\ def_lexer = ImportDefLexer
    /\ guess_lexer = TRUE
    /\ show_links = FALSE
    /\ admons = ImportAdmons
    /\ roller = <<>>
    /\ pc = "idle"
    /\ last = NoCall

(***************************************************************************)
(* Strings: a string is a sequence of characters; the characters of a      *)
(* table are records [ch, row, col] (the glyph and where tabulate put it). *)
(* Python's range and slice with their corner cases.                       *)
(***************************************************************************)
Min(a, b) == IF a < b THEN a ELSE b
Max(a, b) == IF a > b THEN a ELSE b

\* s[a:b] for a >= 0; a negative b counts from the end
PySlice(s, a, b) ==
    LET n == Len(s)
        hi == IF b < 0 THEN Max(b + n, 0) ELSE Min(b, n)
    IN IF a >= hi THEN <<>> ELSE SubSeq(s, a + 1, hi)

\* list(range(start, stop, step)) for step # 0 (range raises ValueError on 0)
RECURSIVE PyRange(_, _, _)
PyRange(start, stop, step) ==
    IF (step > 0 /\ start >= stop) \/ (step < 0 /\ start <= stop) THEN <<>>
    ELSE <<start>> \o PyRange(start + step, stop, step)

\* line.ljust(w, ' ') of a table line; the padding belongs to row r
Ljust(line, w, r) ==
    IF w <= Len(line) THEN line
    ELSE line \o [j \in 1..(w - Len(line)) |->
                     [ch |-> " ", row |-> r, col |-> Len(line) + j]]

(***************************************************************************)
(* split_blocks and the table branch of the formatter (lines 715-774).     *)
(* A rendered line is [cont, text, style]: cont is the prefix ' ' + the    *)
(* low-colored continuation glyph, text the characters, style the color    *)
(* the line is wrapped in.                                                 *)
(***************************************************************************)
\* one line's chunks when a continuation chunk takes the full cols characters
LineParts_FullChunks(line0, w, cols, r) ==
    LET line == Ljust(line0, w, r)
        head == [cont |-> FALSE, text |-> PySlice(line, 0, cols), style |-> "plain"]
        starts == PyRange(cols, Len(line), cols)
    IN [parts |-> <<head>> \o
            [k \in 1..Len(starts) |->
                [cont |-> TRUE,
                 text |-> PySlice(line, starts[k], starts[k] + cols),
                 style |-> "plain"]],
        raised |-> ""]

\* one line's chunks, lines 548-559: [parts, raised]
LineParts(line0, w, cols, r) ==
    LET line == Ljust(line0, w, r)
        scols == cols - 2
        head == [cont |-> FALSE, text |-> PySlice(line, 0, cols), style |-> "plain"]
    IN IF scols = 0 THEN [parts |-> <<head>>, raised |-> "ValueError"]
       ELSE LET starts == PyRange(cols, Len(line), scols) IN
            [parts |-> <<head>> \o
                 [k \in 1..Len(starts) |->
                     [cont |-> TRUE,
                      text |-> PySlice(line, starts[k], starts[k] + scols),
                      style |-> "plain"]],
             raised |-> ""]

\* t.replace('-', hr_sep-like U+2500) on a rendered line; "=" stands for the
\* box-drawing dash
ReplaceDash(text) ==
    [j \in 1..Len(text) |->
        IF text[j].ch = "-" THEN [text[j] EXCEPT !.ch = "="] ELSE text[j]]

\* borders (lines 721-722): the first line, dashes replaced and low, is also
\* made the last line
borders(t) ==
    LET b == [t[1] EXCEPT !.text = ReplaceDash(t[1].text), !.style = "low"]
    IN [i \in 1..Len(t) |-> IF i = 1 \/ i = Len(t) THEN b ELSE t[i]]

\* split_blocks(text_block, w, cols, part_fmter=borders): [blocks, raised]
split_blocks(lines, w, cols) ==
    LET ts == [i \in 1..Len(lines) |-> LineParts(lines[i], w, cols, i)]
    IN IF \E i \in 1..Len(ts) : ts[i].raised # ""
       THEN [blocks |-> <<>>, raised |-> "ValueError"]
       ELSE IF \E i \in 1..Len(ts) : Len(ts[i].parts) < Len(ts[1].parts)
       THEN [blocks |-> <<>>, raised |-> "IndexError"]
       ELSE IF Len(ts) < 2
       THEN [blocks |-> <<>>, raised |-> "IndexError"]
       ELSE [blocks |->
                [nr \in 1..Len(ts[1].parts) |->
                    LET tpart == borders([i \in 1..Len(ts) |-> ts[i].parts[nr]])
                    IN [tpart EXCEPT ![2].style = "H3"]],
             raised |-> ""]

\* the table branch, lines 738-774: the lines appended to out when the table
\* fits (indent: the number of left_indent put before each line), the blocks
\* otherwise
format_table(t, cols) ==
    IF t.w <= cols
    THEN [split |-> FALSE, raised |-> "", blocks |-> <<>>,
          lines |-> borders([i \in 1..Len(t.lines) |->
                       [cont |-> FALSE, text |-> t.lines[i], style |-> "plain"]]),
          indent |-> t.hir]
    ELSE LET sb == split_blocks(t.lines, t.w, cols) IN
         [split |-> TRUE, raised |-> sb.raised, blocks |-> sb.blocks,
          lines |-> <<>>, indent |-> 0]

(***************************************************************************)
(* Tables: what tabulate gives for a grid of cells.  The first and the     *)
(* last line are the separator, w characters wide; a row in between has   *)
(* its trailing spaces stripped and is 1..w characters long.               *)
(***************************************************************************)
MaxWidth == 7
MaxCols == 5
MaxRows == 2
MaxHir == 1

SepLine(w, r) == [j \in 1..w |-> [ch |-> "-", row |-> r, col |-> j]]
RowLine(n, r) == [j \in 1..n |-> [ch |-> "x", row |-> r, col |-> j]]

\* the table of width w whose rows have the lengths lens
TableOf(w, lens) ==
    <<SepLine(w, 1)>>
    \o [i \in 1..Len(lens) |-> RowLine(lens[i], i + 1)]
    \o <<SepLine(w, Len(lens) + 2)>>

TablesOfWidth(w) ==
    {[w |-> w, lines |-> TableOf(w, lens), hir |-> h] :
        h \in 0..MaxHir, lens \in UNION {[1..n -> 1..w] : n \in 1..MaxRows}}

Tables == UNION {TablesOfWidth(w) : w \in 1..MaxWidth}

NoTable == [w |-> 0, lines |-> <<>>, hir |-> 0]
NoTout == [done |-> FALSE]

TableIdle == table = NoTable /\ tout = NoTout

\* the formatter reaches the table node: tout is what its table branch made
\* of it, with the term_columns it read
FormatTable ==
    /\ tout' = [done |-> TRUE, cols |-> term_columns,
                res |-> format_table(table, term_columns)]
    /\ UNCHANGED <<paletteVars, table, rewrapVars, fmtVars, hiliteVars>>
    /\ UNCHANGED utilVars

\* main's "if cols: term_columns = int(cols)" for a positive cols
SetCols ==
    /\ \E c \in 1..MaxCols : term_columns' = c
    /\ UNCHANGED <<H, CH, code_hl_tokens, themes, catalog_file, environ,
                   def_lexer, guess_lexer, show_links, admons, roller, pc, last>>
    /\ UNCHANGED notPalette

(***************************************************************************)
(* rewrap (lines 494-508) with textwrap.dedent and textwrap.fill.  A text  *)
(* is a sequence of one-character strings: "a" a letter, " " and "\n"      *)
(* whitespace, "S" and "E" an inline start and end marker, "P" and "Q"     *)
(* the placeholder delimiters \x02 and \x03.                               *)
(***************************************************************************)
IsSpace(c) == c \in {" ", "\n"}

AllSpace(s) == \A i \in 1..Len(s) : IsSpace(s[i])

RECURSIVE LStrip(_)
LStrip(s) == IF s # <<>> /\ IsSpace(s[1]) THEN LStrip(Tail(s)) ELSE s

RECURSIVE RStrip(_)
RStrip(s) ==
    IF s # <<>> /\ IsSpace(s[Len(s)]) THEN RStrip(SubSeq(s, 1, Len(s) - 1)) ELSE s

\* str.strip()
Strip(s) == RStrip(LStrip(s))

\* s.split('\n')
RECURSIVE SplitLines(_)
SplitLines(s) ==
    IF \A i \in 1..Len(s) : s[i] # "\n" THEN <<s>>
    ELSE LET k == CHOOSE i \in 1..Len(s) :
                     s[i] = "\n" /\ \A m \in 1..(i - 1) : s[m] # "\n"
         IN <<SubSeq(s, 1, k - 1)>> \o SplitLines(SubSeq(s, k + 1, Len(s)))

\* '\n'.join(lines)
RECURSIVE JoinLines(_)
JoinLines(lines) ==
    IF lines = <<>> THEN <<>>
    ELSE IF Len(lines) = 1 THEN lines[1]
    ELSE lines[1] \o <<"\n">> \o JoinLines(Tail(lines))

\* the number of leading blanks of a line
RECURSIVE Indent(_)
Indent(line) ==
    IF line # <<>> /\ line[1] = " " THEN 1 + Indent(Tail(line)) ELSE 0

\* textwrap.dedent: lines of blanks only are emptied, then the margin common
\* to the other lines is removed from them
dedent(t) ==
    LET ls0 == SplitLines(t)
        ls == [i \in 1..Len(ls0) |-> IF AllSpace(ls0[i]) THEN <<>> ELSE ls0[i]]
        inds == {Indent(ls[i]) : i \in {k \in 1..Len(ls) : ls[k] # <<>>}}
        margin == IF inds = {} THEN 0
                  ELSE CHOOSE m \in inds : \A n \in inds : m <= n
    IN JoinLines([i \in 1..Len(ls) |->
                     IF ls[i] = <<>> THEN <<>>
                     ELSE SubSeq(ls[i], margin + 1, Len(ls[i]))])

\* TextWrapper._munge_whitespace: every whitespace character becomes a blank
MungeWhitespace(t) == [i \in 1..Len(t) |-> IF IsSpace(t[i]) THEN " " ELSE t[i]]

\* TextWrapper._split: the maximal runs of blanks and of other characters
RECURSIVE SplitChunks(_)
SplitChunks(t) ==
    IF t = <<>> THEN <<>>
    ELSE LET sp == IsSpace(t[1])
             n == CHOOSE k \in 1..Len(t) :
                    /\ \A i \in 1..k : IsSpace(t[i]) = sp
                    /\ k = Len(t) \/ IsSpace(t[k + 1]) # sp
         IN <<SubSeq(t, 1, n)>> \o SplitChunks(SubSeq(t, n + 1, Len(t)))

\* the number of leading chunks that fit a line of the given width after
\* cur_len characters
RECURSIVE FitCount(_, _, _)
FitCount(chunks, cur_len, width) ==
    IF chunks = <<>> \/ cur_len + Len(chunks[1]) > width THEN 0
    ELSE 1 + FitCount(Tail(chunks), cur_len + Len(chunks[1]), width)

RECURSIVE SumLen(_)
SumLen(chunks) == IF chunks = <<>> THEN 0 ELSE Len(chunks[1]) + SumLen(Tail(chunks))

RECURSIVE Concat(_)
Concat(chunks) == IF chunks = <<>> THEN <<>> ELSE chunks[1] \o Concat(Tail(chunks))

\* TextWrapper._wrap_chunks (drop_whitespace and break_long_words are on, the
\* defaults fill is called with): the lines made from the chunks
RECURSIVE WrapChunks(_, _, _)
WrapChunks(chunks, lines, width) ==
    IF chunks = <<>> THEN lines
    ELSE
      LET c0 == IF AllSpace(chunks[1]) /\ lines # <<>> THEN Tail(chunks) ELSE chunks
          n == FitCount(c0, 0, width)
          cur == SubSeq(c0, 1, n)
          rest == SubSeq(c0, n + 1, Len(c0))
          long == rest # <<>> /\ Len(rest[1]) > width
          space_left == IF width < 1 THEN 1 ELSE width - SumLen(cur)
          cur1 == IF long THEN Append(cur, SubSeq(rest[1], 1, space_left)) ELSE cur
          rest1 == IF long
                   THEN <<SubSeq(rest[1], space_left + 1, Len(rest[1]))>> \o Tail(rest)
                   ELSE rest
          cur2 == IF cur1 # <<>> /\ AllSpace(cur1[Len(cur1)])
                  THEN SubSeq(cur1, 1, Len(cur1) - 1) ELSE cur1
          lines1 == IF cur2 # <<>> THEN Append(lines, Concat(cur2)) ELSE lines
      IN WrapChunks(rest1, lines1, width)

\* textwrap.fill(text, width=cols)
fill(text, width) ==
    JoinLines(WrapChunks(SplitChunks(MungeWhitespace(text)), <<>>, width))

\* rewrap(el, t, ind, pref) with indpref = len(ind + pref)
rewrap(tag, t, indpref, term_cols) ==
    LET cols == Max(term_cols - indpref, 5) IN
    IF tag = "code" \/ Len(t) <= cols THEN t
    ELSE IF t # <<>> /\ t[1] = "P" /\ t[Len(t)] = "Q" THEN t
    ELSE fill(Strip(dedent(t)), cols)

(***************************************************************************)
(* Texts rewrap is given: every text of up to MaxText characters whose     *)
(* markers are paired, and the placeholders.                               *)
(***************************************************************************)
MaxText == 7

\* the number of marker spans open after the text s
RECURSIVE Depth(_)
Depth(s) ==
    IF s = <<>> THEN 0
    ELSE Depth(SubSeq(s, 1, Len(s) - 1))
         + (IF s[Len(s)] = "S" THEN 1 ELSE IF s[Len(s)] = "E" THEN -1 ELSE 0)

\* every end marker ends a span, and every span is ended
MarkersPaired(s) ==
    /\ \A i \in 1..Len(s) : Depth(SubSeq(s, 1, i)) >= 0
    /\ Depth(s) = 0

Texts ==
    {t \in UNION {[1..n -> {"a", " ", "\n", "S", "E"}] : n \in 0..MaxText} :
        MarkersPaired(t)}

Placeholders ==
    {<<"P">> \o b \o <<"Q">> :
        b \in UNION {[1..n -> {"a", " "}] : n \in 0..(MaxText - 2)}}

NoRewrap == [done |-> FALSE]

RewrapIdle == rw_in = <<>> /\ rw_out = NoRewrap

\* the formatter calls rewrap(el, t, ind, pref) for the text rw_in
Rewrap ==
    /\ \E tag \in {"p", "code"}, indpref \in {0, 2} :
         rw_out' = [done |-> TRUE, tag |-> tag,
                    cols |-> Max(term_columns - indpref, 5),
                    text |-> rewrap(tag, rw_in, indpref, term_columns)]
    /\ UNCHANGED <<paletteVars, tableVars, rw_in, fmtVars, hiliteVars>>
    /\ UNCHANGED utilVars

(***************************************************************************)
(* The block formatter: AnsiPrinter.run (lines 579-791) with is_text_node  *)
(* and the Tags functions, in Python 2 (dict.values() is a list).          *)
(* A document is the sequence of its nodes in document order, a node       *)
(* [tag, text, attrs, parent]: text is el.text ('' also for None, which    *)
(* the formatter treats alike), attrs the attributes the document gives    *)
(* it, parent the index of its parent (0 for the root); tails are empty.   *)
(* A text is a sequence of characters as for rewrap; "!!!" and an          *)
(* admonition keyword are one character each, and so is a serialized tag   *)
(* ("<ul>", "</ul>", "<hr />").                                            *)
(* An entry of out is a sequence of parts: the string a Tags function       *)
(* returned, and what "out[-1] +=" added to it.  A part keeps the string's  *)
(* pieces: ind blanks, the prefix and its color, the lines of the text     *)
(* (the later lines after cont_ind blanks and body_pref), the color.       *)
(***************************************************************************)
left_indent == 2

list_pref == "- "

C_ == 102

header_tags == {"h1", "h2", "h3", "h4", "h5", "h6", "h7", "h8"}

\* int(el.tag[1:]) of a header tag
HeaderLevel(tag) ==
    CASE tag = "h1" -> 1 [] tag = "h2" -> 2 [] tag = "h3" -> 3
      [] tag = "h4" -> 4 [] tag = "h5" -> 5 [] tag = "h6" -> 6
      [] tag = "h7" -> 7 [] tag = "h8" -> 8

\* the level Tags.h1 .. Tags.h8 hand to Tags.h
TagsLevel(tag) == IF HeaderLevel(tag) > 5 THEN 5 ELSE HeaderLevel(tag)

\* el.tag.startswith('h'), for the tags of the model
StartsWithH(tag) == tag \in header_tags \cup {"hr", "h"}

Inlines == {"em", "code", "strong"}

EmptyAttrs == [x \in {} |-> ""]

\* get_attr(el, attr): '' for an attribute the element has not
get_attr(el, attr) == IF attr \in DOMAIN el.attrs THEN el.attrs[attr] ELSE ""

\* el.getchildren(): the indices of the children of node i, in order
getchildren(d, i) ==
    SelectSeq([j \in 1..Len(d) |-> j], LAMBDA j : d[j].parent = i)

\* the attributes as etree writes them into the start tag
AttrText(el) ==
    (IF "src" \in DOMAIN el.attrs THEN " src" ELSE "")
    \o (IF "href" \in DOMAIN el.attrs THEN " href" ELSE "")

OpenTag(el) == "<" \o el.tag \o AttrText(el) \o ">"
CloseTag(el) == "</" \o el.tag \o ">"
EmptyTag(el) == "<" \o el.tag \o AttrText(el) \o " />"

\* etree.tostring(el) after the formatter's replaces of lines 611-615: the
\* start and end tag of a non-empty inline element without attributes are
\* the markers already
RECURSIVE tostring(_, _)
RECURSIVE InnerFrom(_, _, _)
InnerFrom(d, i, k) ==
    LET ch == getchildren(d, i) IN
    IF k > Len(ch) THEN <<>>
    ELSE tostring(d, ch[k]) \o InnerFrom(d, i, k + 1)

tostring(d, i) ==
    LET body == d[i].text \o InnerFrom(d, i, 1) IN
    IF body = <<>> THEN <<EmptyTag(d[i])>>
    ELSE IF d[i].tag \in Inlines /\ DOMAIN d[i].attrs = {}
    THEN <<"S">> \o body \o <<"E">>
    ELSE <<OpenTag(d[i])>> \o body \o <<CloseTag(d[i])>>

\* the characters of the document's serialization that begin with '<'
TagChars(d) ==
    UNION {{OpenTag(d[j]), CloseTag(d[j]), EmptyTag(d[j])} : j \in 1..Len(d)}

\* is_text_node(el): [is, html]; html is the element's inner text
is_text_node(d, i) ==
    LET html == d[i].text \o InnerFrom(d, i, 1) IN
    IF html = <<>> \/ html[1] \notin TagChars(d)
    THEN [is |-> TRUE, html |-> html]
    ELSE [is |-> FALSE, html |-> <<>>]

\* str.splitlines()
splitlines(s) ==
    IF s = <<>> THEN <<>>
    ELSE IF s[Len(s)] = "\n" THEN SplitLines(SubSeq(s, 1, Len(s) - 1))
    ELSE SplitLines(s)

\* ' ' * n
RECURSIVE Blanks(_)
Blanks(n) == IF n <= 0 THEN "" ELSE " " \o Blanks(n - 1)

\* ''.join(chars)
RECURSIVE JoinStr(_)
JoinStr(w) == IF w = <<>> THEN "" ELSE w[1] \o JoinStr(Tail(w))

\* k.capitalize() for the keywords of the model
Capitalize(k) ==
    CASE k = "note" -> "Note" [] k = "warning" -> "Warning"
      [] k = "attention" -> "Attention" [] k = "hint" -> "Hint"
      [] k = "summary" -> "Summary" [] k = "question" -> "Question"
      [] k = "danger" -> "Danger" [] k = "dev" -> "Dev"
      [] k = "caution" -> "Caution" [] k = "kw" -> "Kw"
      [] OTHER -> k

\* s.split(' ', 1)[0]: the characters before the first blank
RECURSIVE FirstWord(_)
FirstWord(s) ==
    IF s = <<>> \/ s[1] = " " THEN <<>> ELSE <<s[1]>> \o FirstWord(Tail(s))

\* t.split(w, 1)[1] for a w that occurs in t: what follows its first occurrence
AfterFirst(t, w) ==
    LET n == Len(w)
        at(j) == j + n - 1 <= Len(t) /\ SubSeq(t, j, j + n - 1) = w
        j0 == CHOOSE j \in 1..Len(t) : at(j) /\ \A m \in 1..(j - 1) : ~at(m)
    IN SubSeq(t, j0 + n, Len(t))

NoPref == [s |-> "", digit |-> FALSE]

\* lines 621-638, [raised, admon, pref, body_pref, t, admons]: "|" stands
\* for the bar U+2503; first is admons.values()[0]
Admonition(t, adm, first) ==
    IF ~(Len(t) >= 2 /\ t[1] = "!!!" /\ t[2] = " ")
    THEN [raised |-> "", admon |-> "", pref |-> NoPref, body_pref |-> "",
          t |-> t, admons |-> adm]
    ELSE
      LET rest == SubSeq(t, 3, Len(t))
          found == rest # <<>> /\ rest[1] \in DOMAIN adm
          word == IF found THEN <<rest[1]>> ELSE FirstWord(rest)
          k == JoinStr(word)
          adm1 == IF found THEN adm
                  ELSE [x \in DOMAIN adm \cup {k} |->
                           IF x = k THEN first ELSE adm[x]]
      IN IF word = <<>>
         THEN [raised |-> "ValueError", admon |-> k, pref |-> NoPref,
               body_pref |-> "", t |-> t, admons |-> adm1]
         ELSE [raised |-> "", admon |-> k,
               pref |-> [s |-> "| " \o Capitalize(k), digit |-> FALSE],
               body_pref |-> "| ", t |-> AfterFirst(t, word), admons |-> adm1]

Part(fn, color, ind, pref, prefcolor, cont_ind, body_pref, bodycolor, lines, hir) ==
    [fn |-> fn, color |-> color, ind |-> ind, pref |-> pref,
     prefcolor |-> prefcolor, cont_ind |-> cont_ind, body_pref |-> body_pref,
     bodycolor |-> bodycolor, lines |-> lines, hir |-> hir, reset |-> TRUE,
     cells |-> <<>>, rows |-> <<>>]

\* the entry '\n'
NL == <<Part("nl", 0, 0, "", 0, 0, "", 0, <<>>, 0)>>

\* Tags.hr('', hir=hir), lines 446-451: [raised, part]; globals()['H%s' % hir]
\* is there for hir in 1..5
Tags_hr(g, hir) ==
    IF hir \in 1..5
    THEN [raised |-> "",
          part |-> Part("hr", g.H[hir], (hir - 1) * left_indent, "", 0, 0, "", 0,
                        <<>>, hir)]
    ELSE [raised |-> "KeyError", part |-> NL[1]]

\* getattr(tags, el.tag, plain) and the color its function gives the text:
\* [raised, fn, color].  Tags.h takes (s, level) and not hir=
tag_fmt_func(g, tag) ==
    IF tag \in header_tags
    THEN [raised |-> "", fn |-> "h", color |-> g.H[TagsLevel(tag)]]
    ELSE IF tag = "p" THEN [raised |-> "", fn |-> "p", color |-> T_]
    ELSE IF tag = "a" THEN [raised |-> "", fn |-> "a", color |-> L_]
    ELSE IF tag = "code" THEN [raised |-> "", fn |-> "code", color |-> C_]
    ELSE IF tag = "h" THEN [raised |-> "TypeError", fn |-> "h", color |-> 0]
    ELSE [raised |-> "", fn |-> "plain", color |-> T_]

\* out[-1] += parts
AddToLast(o, parts) == [o EXCEPT ![Len(o)] = @ \o parts]

\* lines 691-694: the links of the element, low
LinkParts(el) ==
    LET names == SelectSeq(<<"src", "href">>, LAMBDA l : l \in DOMAIN el.attrs) IN
    [n \in 1..Len(names) |->
        Part("link", L_, 0, "", 0, 0, "", 0, <<<<get_attr(el, names[n])>>>>, 0)]

HasChar(p, sym) ==
    \E l \in 1..Len(p.lines) : \E j \in 1..Len(p.lines[l]) : p.lines[l][j] = sym

\* s.split(sym, 1)[0] of a part that has sym: the reset after it is cut too
CutPart(p, sym) ==
    LET l0 == CHOOSE l \in 1..Len(p.lines) :
                /\ \E j \in 1..Len(p.lines[l]) : p.lines[l][j] = sym
                /\ \A m \in 1..(l - 1) :
                     \A j \in 1..Len(p.lines[m]) : p.lines[m][j] # sym
        line == p.lines[l0]
        j0 == CHOOSE j \in 1..Len(line) :
                line[j] = sym /\ \A m \in 1..(j - 1) : line[m] # sym
    IN [p EXCEPT !.lines = SubSeq(p.lines, 1, l0 - 1) \o <<SubSeq(line, 1, j0 - 1)>>,
                 !.reset = FALSE]

\* line 711: out[-1] = out[-1].split('<%s>' % nested, 1)[0]
CutLast(o, sym) ==
    LET e == o[Len(o)] IN
    IF \A n \in 1..Len(e) : ~HasChar(e[n], sym) THEN o
    ELSE LET n0 == CHOOSE n \in 1..Len(e) :
                     HasChar(e[n], sym) /\ \A m \in 1..(n - 1) : ~HasChar(e[m], sym)
         IN [o EXCEPT ![Len(o)] = SubSeq(e, 1, n0 - 1) \o <<CutPart(e[n0], sym)>>]

\* a pending call formatter(el, out, hir, parent=parent), with the 'pref' the
\* caller set on el; parent is 0 for None and -1 for a row list of fmt, fresh
\* says that the call is fmt's, on a new list _cell.  "cellend": fmt's
\* return; "join": lines 738-774 of the table whose cells are done (err:
\* what el[1] raised)
Frame(k, el, hir, parent, pref, fresh, err, rows) ==
    [k |-> k, el |-> el, hir |-> hir, parent |-> parent, pref |-> pref,
     fresh |-> fresh, err |-> err, rows |-> rows]

CallFrame(el, hir, parent, pref, fresh) ==
    Frame("call", el, hir, parent, pref, fresh, "", <<>>)

\* lines 776-785: the children annotated and formatted in order
ChildCalls(d, i, hir) ==
    LET ch == getchildren(d, i) IN
    [n \in 1..Len(ch) |->
        CallFrame(ch[n], hir + 1, i,
                  IF d[i].tag = "ul" THEN [s |-> list_pref, digit |-> FALSE]
                  ELSE IF d[i].tag = "ol"
                  THEN [s |-> ToString(n) \o ". ", digit |-> TRUE]
                  ELSE NoPref,
                  FALSE)]

\* lines 731-737: fmt for the cells of the rows of el[0] and el[1], then the
\* rest of the table branch
TableCalls(d, i, hir) ==
    LET ch == getchildren(d, i)
        secs == SubSeq(ch, 1, Min(2, Len(ch)))
        rows == Concat([s \in 1..Len(secs) |-> getchildren(d, secs[s])])
        cells == Concat([r \in 1..Len(rows) |-> getchildren(d, rows[r])])
    IN Concat([c \in 1..Len(cells) |->
                  <<CallFrame(cells[c], 0, -1, NoPref, TRUE),
                    Frame("cellend", cells[c], 0, -1, NoPref, FALSE, "", <<>>)>>])
       \o <<Frame("join", i, hir, 0, NoPref, FALSE,
                  IF Len(ch) < 2 THEN "IndexError" ELSE "",
                  [r \in 1..Len(rows) |-> Len(getchildren(d, rows[r]))])>>

\* IndentOf for a formatter that takes a header like any other text
IndentOf_NoHeader(el, hir) == [ind |-> left_indent * hir, hir |-> hir]

\* lines 648-653: the indent of the text, [ind, hir]; a header counts its
\* level into hir
IndentOf(el, hir) ==
    IF el.tag \in header_tags
    THEN [ind |-> HeaderLevel(el.tag) - 1, hir |-> hir + HeaderLevel(el.tag)]
    ELSE [ind |-> left_indent * hir, hir |-> hir]

\* lines 640-646: the prefix the parent set on el goes before the admonition's
PrefOf(f, ad) == IF f.pref.s # "" THEN f.pref ELSE ad.pref

BodyPrefOf(f, ad) ==
    IF f.pref.s # "" THEN Blanks(Len(f.pref.s)) ELSE ad.body_pref

\* lines 658-661: the color of an admonition's prefixes (0: not colored)
AdmonColor(g, ad) ==
    IF ad.admon # "" THEN ColorGlobal(g, ad.admons[ad.admon]) ELSE 0

\* lines 658-669: the color of the prefix (0: not colored); a list's bullet or
\* ordinal takes the heading color of the hierarchy
PrefColor(g, ad, pref, hir) ==
    IF ad.admon # "" THEN AdmonColor(g, ad)
    ELSE IF pref.s # "" /\ (pref.s = list_pref \/ pref.digit)
    THEN g.H[((hir - 2) % 5) + 1]
    ELSE 0

\* lines 685-686: the paragraph of a list item without text
IsFixup(d, f) ==
    /\ f.parent > 0
    /\ d[f.parent].tag = "li"
    /\ d[f.parent].text = <<>>
    /\ d[f.el].tag = "p"

\* lines 655-690: the string the Tags function makes of the text t
TextPart(d, f, g, ad, fn, ih, t) ==
    Part(fn.fn, fn.color, IF IsFixup(d, f) THEN 0 ELSE ih.ind,
         PrefOf(f, ad).s, PrefColor(g, ad, PrefOf(f, ad), ih.hir),
         ih.ind, BodyPrefOf(f, ad), AdmonColor(g, ad), splitlines(t), ih.hir)

\* lines 658-659 and 696-697: out.append('\n') around an admonition
WithNL(o, ad) == IF ad.admon # "" THEN Append(o, NL) ELSE o

\* PutPart for a fixup that puts the paragraph in the place of the last entry
PutPart_Replace(o, part, fixup) ==
    IF fixup THEN [o EXCEPT ![Len(o)] = <<part>>] ELSE Append(o, <<part>>)

\* lines 685-690
PutPart(o, part, fixup) ==
    IF fixup THEN AddToLast(o, <<part>>) ELSE Append(o, <<part>>)

\* lines 691-694
WithLinks(o, g, el) == IF g.show_links THEN AddToLast(o, LinkParts(el)) ELSE o

\* lines 655-697 for the admonition ad read off the text
TextOut(d, f, o, g, tn, ad, fn, ih) ==
    IF ad.raised # "" \/ fn.raised # "" \/ (IsFixup(d, f) /\ WithNL(o, ad) = <<>>)
    THEN [raised |-> IF ad.raised # "" THEN ad.raised
                     ELSE IF fn.raised # "" THEN fn.raised ELSE "IndexError",
          out |-> o, admons |-> ad.admons, hir |-> ih.hir, is_txt |-> tn.is]
    ELSE [raised |-> "",
          out |-> WithNL(
                    WithLinks(
                      PutPart(WithNL(o, ad),
                              TextPart(d, f, g, ad, fn, ih,
                                       rewrap(d[f.el].tag, ad.t,
                                              ih.ind + Len(PrefOf(f, ad).s),
                                              g.term_columns)),
                              IsFixup(d, f)),
                      g, d[f.el]),
                    ad),
          admons |-> ad.admons, hir |-> ih.hir, is_txt |-> tn.is]

\* lines 607-620: the text of the element, stripped
TextOfNode(d, f, tn) == Strip(IF tn.is THEN tn.html ELSE d[f.el].text)

TextOfEl(d, f, o, g, first, tn) ==
    TextOut(d, f, o, g, tn, Admonition(TextOfNode(d, f, tn), g.admons, first),
            tag_fmt_func(g, d[f.el].tag), IndentOf(d[f.el], f.hir))

\* lines 599-697, the text of the element: [raised, out, admons, hir, is_txt]
TextBranch(d, f, o, g, first) ==
    IF d[f.el].text # <<>> \/ d[f.el].tag \in {"p", "li"} \/ StartsWithH(d[f.el].tag)
    THEN TextOfEl(d, f, o, g, first, is_text_node(d, f.el))
    ELSE [raised |-> "", out |-> o, admons |-> g.admons, hir |-> f.hir,
          is_txt |-> FALSE]

FmtRes(raised, o, adm, calls, tbl) ==
    [raised |-> raised, out |-> o, admons |-> adm, calls |-> calls, table |-> tbl]

\* lines 715-774 up to the calls of fmt
TableBranch(o, txt, calls) ==
    IF Len(calls) = 1 /\ calls[1].err # ""
    THEN FmtRes(calls[1].err, o, txt.admons, <<>>, FALSE)
    ELSE FmtRes("", txt.out, txt.admons, calls, TRUE)

\* lines 701-713: the sublist that ends an inline formatted list item
NestedList(d, f, txt, ul) ==
    FmtRes("", CutLast(txt.out, "<" \o d[ul].tag \o ">"), txt.admons,
           <<CallFrame(ul, txt.hir + 1, f.el, NoPref, FALSE)>>, FALSE)

\* lines 699-785 after the text txt of the element
AfterText(d, f, o, txt, ch) ==
    IF txt.raised # "" THEN FmtRes(txt.raised, o, txt.admons, <<>>, FALSE)
    ELSE IF txt.is_txt
    THEN IF d[f.el].tag = "li" /\ ch # <<>> /\ d[ch[Len(ch)]].tag \in {"ul", "ol"}
         THEN NestedList(d, f, txt, ch[Len(ch)])
         ELSE FmtRes("", txt.out, txt.admons, <<>>, FALSE)
    ELSE IF d[f.el].tag = "table"
    THEN TableBranch(o, txt, TableCalls(d, f.el, txt.hir))
    ELSE FmtRes("", txt.out, txt.admons, ChildCalls(d, f.el, txt.hir), FALSE)

\* lines 596-597
HrBranch(o, g, r) ==
    IF r.raised # "" THEN FmtRes(r.raised, o, g.admons, <<>>, FALSE)
    ELSE FmtRes("", Append(o, <<r.part>>), g.admons, <<>>, FALSE)

\* one call formatter(el, out, hir, pref, parent) up to the calls it makes:
\* [raised, out, admons, calls, table]
formatter(d, f, o, g, first) ==
    IF d[f.el].tag = "hr" THEN HrBranch(o, g, Tags_hr(g, f.hir))
    ELSE AfterText(d, f, o, TextBranch(d, f, o, g, first), getchildren(d, f.el))

\* the run is over: out is joined into the result, or the error left run
FormatterDone == todo = <<>>

\* what a call leaves: the error ends the run
Returned(r, bufs) ==
    /\ admons' = r.admons
    /\ IF r.raised # ""
       THEN /\ ferr' = r.raised
            /\ todo' = <<>>
            /\ out' = bufs
            /\ tcells' = tcells
       ELSE /\ ferr' = ferr
            /\ todo' = r.calls \o Tail(todo)
            /\ out' = <<r.out>> \o Tail(bufs)
            /\ tcells' = IF r.table THEN <<<<>>>> \o tcells ELSE tcells

\* the out list of the call f
OutOf(f) == IF f.fresh THEN <<<<>>>> \o out ELSE out

\* the next pending call of the formatter
FormatNode ==
    /\ todo # <<>>
    /\ Head(todo).k = "call"
    /\ \E first \in FirstValues(admons) :
         Returned(formatter(doc, Head(todo), Head(OutOf(Head(todo))), Globals, first),
                  OutOf(Head(todo)))
    /\ UNCHANGED <<H, CH, code_hl_tokens, themes, catalog_file, environ,
                   term_columns, def_lexer, guess_lexer, show_links, roller, pc,
                   last>>
    /\ UNCHANGED <<tableVars, rewrapVars, doc, hiliteVars>>
    /\ UNCHANGED utilVars

\* main's "show_links = display_links" (line 943), before the run starts
SetLinks ==
    /\ todo = <<CallFrame(1, 0, 0, NoPref, FALSE)>>
    /\ ~show_links
    /\ show_links' = TRUE
    /\ UNCHANGED <<H, CH, code_hl_tokens, themes, catalog_file, environ,
                   term_columns, def_lexer, guess_lexer, admons, roller, pc, last>>
    /\ UNCHANGED notPalette

\* fmt returns '\n'.join(_cell), which the row takes
CellEnd ==
    /\ todo # <<>>
    /\ Head(todo).k = "cellend"
    /\ tcells' = <<Append(Head(tcells), Head(out))>> \o Tail(tcells)
    /\ out' = Tail(out)
    /\ todo' = Tail(todo)
    /\ UNCHANGED <<paletteVars, tableVars, rewrapVars, doc, ferr, hiliteVars>>
    /\ UNCHANGED utilVars

\* lines 738-774 for the cells made: el[1] of a table of one child raises;
\* otherwise what tabulate and FormatTable make of the cells is put to out,
\* here as one entry holding the cells
TableJoin ==
    /\ todo # <<>>
    /\ Head(todo).k = "join"
    /\ LET f == Head(todo) IN
       IF f.err # ""
       THEN /\ ferr' = f.err
            /\ todo' = <<>>
            /\ UNCHANGED <<out, tcells>>
       ELSE /\ out' = <<Append(Head(out),
                          <<[Part("table", 0, f.hir * left_indent, "", 0, 0, "", 0,
                                  <<>>, f.hir)
                               EXCEPT !.cells = Head(tcells), !.rows = f.rows]>>)>>
                      \o Tail(out)
            /\ tcells' = Tail(tcells)
            /\ todo' = Tail(todo)
            /\ ferr' = ferr
    /\ UNCHANGED <<paletteVars, tableVars, rewrapVars, doc, hiliteVars>>
    /\ UNCHANGED utilVars

(***************************************************************************)
(* Documents the formatter is given: the trees of up to MaxNodes nodes     *)
(* under a root div, the chains div > blockquote > ... > leaf, and a       *)
(* table with a head row and a body row.                                   *)
(***************************************************************************)
MaxNodes == 4
MaxChain == 5

Kind(tag, text, attrs) == [tag |-> tag, text |-> text, attrs |-> attrs]

NodeKinds ==
    {Kind("p", t, EmptyAttrs) :
        t \in {<<>>, <<"a">>, <<"!!!", " ", "note", " ", "a">>,
               <<"!!!", " ", "kw", " ", "a">>, <<"!!!", " ", " ", "a">>}}
    \cup {Kind(tg, t, EmptyAttrs) : tg \in {"li", "h1"}, t \in {<<>>, <<"a">>}}
    \cup {Kind("li", <<"!!!", " ", "note", " ", "a">>, EmptyAttrs)}
    \cup {Kind(tg, <<>>, EmptyAttrs) :
            tg \in {"ul", "ol", "hr", "blockquote", "table"}}
    \cup {Kind(tg, <<"a">>, EmptyAttrs) : tg \in {"h6", "em", "code"}}
    \cup {Kind("a", <<"a">>, [x \in {"href"} |-> "u"])}

NodeOf(kind, parent) ==
    [tag |-> kind.tag, text |-> kind.text, attrs |-> kind.attrs, parent |-> parent]

Root == NodeOf(Kind("div", <<>>, EmptyAttrs), 0)

\* node i and the nodes above it
RECURSIVE Ancestors(_, _)
Ancestors(ps, i) ==
    IF i = 0 THEN {} ELSE {i} \cup Ancestors(ps, ps[i])

\* the parents of the nodes of a tree of n nodes numbered in document order
Shapes(n) ==
    {ps \in [1..n -> 0..(n - 1)] :
        /\ ps[1] = 0
        /\ \A i \in 2..n : ps[i] >= 1 /\ ps[i] < i
        /\ \A i \in 2..n : ps[i] \in Ancestors(ps, i - 1)}

TreesOf(n) ==
    {[i \in 1..n |-> IF i = 1 THEN Root ELSE NodeOf(ks[i - 1], ps[i])] :
        ps \in Shapes(n), ks \in [1..(n - 1) -> NodeKinds]}

Chain(k, leaf) ==
    [i \in 1..(k + 2) |->
        IF i = 1 THEN Root
        ELSE IF i = k + 2 THEN NodeOf(leaf, i - 1)
        ELSE NodeOf(Kind("blockquote", <<>>, EmptyAttrs), i - 1)]

TableDoc(cell) ==
    <<Root,
      NodeOf(Kind("table", <<>>, EmptyAttrs), 1),
      NodeOf(Kind("thead", <<>>, EmptyAttrs), 2),
      NodeOf(Kind("tr", <<>>, EmptyAttrs), 3),
      NodeOf(Kind("th", <<"a">>, EmptyAttrs), 4),
      NodeOf(Kind("tbody", <<>>, EmptyAttrs), 2),
      NodeOf(Kind("tr", <<>>, EmptyAttrs), 6),
      NodeOf(cell, 7)>>

Docs ==
    UNION {TreesOf(n) : n \in 1..MaxNodes}
    \cup {Chain(k, leaf) : k \in 1..MaxChain,
                           leaf \in {Kind("hr", <<>>, EmptyAttrs),
                                     Kind("p", <<"a">>, EmptyAttrs)}}
    \cup {TableDoc(Kind("td", t, EmptyAttrs)) : t \in {<<>>, <<"a">>}}
    \cup {SubSeq(TableDoc(Kind("td", <<>>, EmptyAttrs)), 1, 5)}

\* no run of the formatter
FmtIdle ==
    doc = <<>> /\ todo = <<>> /\ out = <<>> /\ tcells = <<>> /\ ferr = ""

(***************************************************************************)
(* do_code_hilite (lines 833-883).  md is the sequence of its lines; a     *)
(* line is one of the docstring openers and closers, "x" (any other        *)
(* text) or "" (an empty line), without trailing whitespace.               *)
(***************************************************************************)
code_mode == 1
md_mode == 2

Openers == {"\"\"\"_", "'''_", "/*_"}

\* lines 850-854: the line that ends the docstring an opener begins
MdStart(opener) ==
    CASE opener = "\"\"\"_" -> "\"\"\""
      [] opener = "'''_" -> "'''"
      [] opener = "/*_" -> "*/"

\* block.append(line): block is the list of the latest entry of blocks
AppendToBlock(blocks, line) ==
    [blocks EXCEPT ![Len(blocks)].block = Append(@, line)]

\* the while loop, lines 846-872
RECURSIVE HiliteLoop(_, _, _, _, _)
HiliteLoop(lines, blocks, mode, mdstart, what) ==
    IF lines = <<>> THEN blocks
    ELSE
      LET line == Head(lines)
          rest == Tail(lines)
      IN IF mode = code_mode /\ line \in Openers
         THEN HiliteLoop(rest, Append(blocks, [mode |-> md_mode, block |-> <<>>]),
                         md_mode, MdStart(line), what)
         ELSE IF mode # code_mode /\ line = mdstart
         THEN IF what = "doc" THEN blocks
              ELSE HiliteLoop(rest,
                              Append(blocks, [mode |-> code_mode, block |-> <<>>]),
                              code_mode, mdstart, what)
         ELSE IF mode = code_mode
         THEN HiliteLoop(rest,
                         IF what \in {"all", "code"}
                         THEN AppendToBlock(blocks, line) ELSE blocks,
                         mode, mdstart, what)
         ELSE HiliteLoop(rest,
                         IF what # "code"
                         THEN AppendToBlock(blocks, line) ELSE blocks,
                         mode, mdstart, what)

\* the line that fences a code block (three backquotes)
Fence == "~~~"

\* lines 874-883: the lines of the result; a block that joins to '' is left out
RECURSIVE HiliteOut(_)
HiliteOut(blocks) ==
    IF blocks = <<>> THEN <<>>
    ELSE LET b == blocks[1] IN
         (IF b.block = <<>> \/ b.block = <<"">> THEN <<>>
          ELSE IF b.mode = code_mode THEN <<Fence>> \o b.block \o <<Fence>>
          ELSE b.block)
         \o HiliteOut(Tail(blocks))

\* ('\n' + md).splitlines() for md = '\n'.join(lines): an empty last line is
\* the newline that ends the text
MdLines(md) ==
    IF md # <<>> /\ md[Len(md)] = "" THEN <<"">> \o SubSeq(md, 1, Len(md) - 1)
    ELSE <<"">> \o md

\* do_code_hilite(md, what): the lines of the string it returns
do_code_hilite(md, what) ==
    LET w == IF what \notin {"all", "code", "doc", "mod"} THEN "all" ELSE what
    IN HiliteOut(HiliteLoop(MdLines(md),
                            <<[mode |-> code_mode, block |-> <<>>]>>,
                            code_mode, "\\x01", w))

MaxLines == 6

HiliteLines == {"\"\"\"_", "/*_", "\"\"\"", "*/", "x", ""}

Sources == UNION {[1..n -> HiliteLines] : n \in 0..MaxLines}

NoHilite == [done |-> FALSE]

HiliteIdle == hl_md = <<>> /\ hl_out = NoHilite

\* main calls do_code_hilite on the text it was given (line 977)
DoCodeHilite ==
    /\ \E what \in {"all", "code", "doc", "mod", "other"} :
         hl_out' = [done |-> TRUE, what |-> what,
                    lines |-> do_code_hilite(hl_md, what)]
    /\ UNCHANGED <<paletteVars, tableVars, rewrapVars, fmtVars, hl_md>>
    /\ UNCHANGED utilVars

(***************************************************************************)
(* style_ansi (lines 354-381).  The tokenizer is pygments: a lexer is      *)
(* known by its name, and the code is given as the token stream lex makes  *)
(* of it, a sequence of [t, v]: the token kind and its text.               *)
(***************************************************************************)
\* the names get_lexer_by_name knows
Lexers == {"python", "bash", "text"}

\* get_lexer_by_name(name): [raised, lexer]; ClassNotFound is a ValueError
get_lexer_by_name(name) ==
    IF name \in Lexers THEN [raised |-> "", lexer |-> name]
    ELSE [raised |-> "ValueError", lexer |-> ""]

\* col(s, c) (lines 389-408) up to its first test "_strt in s": s has to be
\* a string
col_raised(s_is_str) == IF s_is_str THEN "" ELSE "TypeError"

\* lines 357-361, [raised, lexer]: the warning is print(col(R, '...')), the
\* color where col takes the string
LexerOfHint(lang) ==
    IF ~Truthy(lang) THEN [raised |-> "", lexer |-> ""]
    ELSE IF get_lexer_by_name(lang).raised = "" THEN get_lexer_by_name(lang)
    ELSE [raised |-> col_raised(FALSE), lexer |-> ""]

\* lines 363-368: guessed is what pyg_guess_lexer gives for the code, a
\* lexer or "raise"; a bare except takes what it raises
GuessedLexer(lexer, guess, guessed) ==
    IF lexer # "" THEN lexer
    ELSE IF guess /\ guessed # "raise" THEN guessed
    ELSE ""

\* lines 369-370
LexerOrDefault(lexer, deflex) ==
    IF lexer # "" THEN [raised |-> "", lexer |-> lexer]
    ELSE get_lexer_by_name(deflex)

\* lines 372-381: the values that are not empty, each with the color of its
\* token kind (0: the value as it is)
RECURSIVE ColorTokens(_, _)
ColorTokens(tokens, hl) ==
    IF tokens = <<>> THEN <<>>
    ELSE (IF Head(tokens).v = "" THEN <<>>
          ELSE <<[v |-> Head(tokens).v,
                  color |-> IF Head(tokens).t \in DOMAIN hl
                            THEN hl[Head(tokens).t] ELSE 0]>>)
         \o ColorTokens(Tail(tokens), hl)

StyleRes(raised, lexer, text) ==
    [done |-> TRUE, raised |-> raised, lexer |-> lexer, text |-> text]

StyleLexed(lx, code, hl) ==
    IF lx.raised # "" THEN StyleRes(lx.raised, "", <<>>)
    ELSE StyleRes("", lx.lexer, ColorTokens(code, hl))

\* style_ansi(raw_code, lang) in the globals g
style_ansi(code, lang, g, guessed) ==
    IF LexerOfHint(lang).raised # ""
    THEN StyleRes(LexerOfHint(lang).raised, "", <<>>)
    ELSE StyleLexed(LexerOrDefault(GuessedLexer(LexerOfHint(lang).lexer,
                                                g.guess_lexer, guessed),
                                   g.def_lexer),
                    code, g.code_hl_tokens)

\* the language hints of a code block: none (None, or '' of a fenced block
\* without a class), a known one, an unknown one
Hints == {NoneV, "", "python", "bash", "nolang"}

\* the names main is given as the default lexer (-X)
LexerArgs == {"bash", "text", "nolexer"}

Token(t, v) == [t |-> t, v |-> v]

Codes ==
    {<<>>, <<Token("Name", "x"), Token("Operator", "="), Token("Number", "1")>>,
     <<Token("Keyword", "if"), Token("Text", "")>>}

NoStyle == [done |-> FALSE]

StyleIdle == sa_in = <<>> /\ sa_out = NoStyle

\* Tags.code calls style_ansi(raw_code, lang=lang) (line 460)
StyleAnsi ==
    /\ ~sa_out.done
    /\ \E guessed \in Lexers \cup {"raise"} :
         sa_out' = style_ansi(sa_in.code, sa_in.lang, Globals, guessed)
    /\ UNCHANGED <<paletteVars, tableVars, rewrapVars, fmtVars, hiliteVars, sa_in>>
    /\ UNCHANGED <<returnVars, monVars>>

\* main's "if c_def_lexer: def_lexer = c_def_lexer" (lines 892-894)
SetLexerArg ==
    /\ ~sa_out.done
    /\ \E c \in LexerArgs : def_lexer' = c
    /\ UNCHANGED <<H, CH, code_hl_tokens, themes, catalog_file, environ,
                   term_columns, guess_lexer, show_links, admons, roller, pc,
                   last>>
    /\ UNCHANGED notPalette

\* main's "guess_lexer = not c_no_guess" (line 953) for -x
SetNoGuess ==
    /\ ~sa_out.done
    /\ guess_lexer
    /\ guess_lexer' = FALSE
    /\ UNCHANGED <<H, CH, code_hl_tokens, themes, catalog_file, environ,
                   term_columns, def_lexer, show_links, admons, roller, pc, last>>
    /\ UNCHANGED notPalette

\* main's set_theme calls end in build_hl_by_token (line 351)
BuildTokens ==
    /\ ~sa_out.done
    /\ code_hl_tokens' = build_hl_by_token(Globals).code_hl_tokens
    /\ UNCHANGED <<H, CH, themes, catalog_file, environ, term_columns, def_lexer,
                   guess_lexer, show_links, admons, roller, pc, last>>
    /\ UNCHANGED notPalette

(***************************************************************************)
(* The end of main (lines 1030-1033): set_hr_widths (lines 794-823) and    *)
(* clean_ansi (lines 281-284).  The text is a sequence of characters: "^"  *)
(* is ESC and "m" the letter that ends an escape sequence, "H" is          *)
(* hr_marker, "=" is hr_sep, "o" is hr_ends.                               *)
(***************************************************************************)
hr_marker == "H"

hr_sep == "="

\* the characters up to the first "m" included, none if there is no "m"
RECURSIVE EscapeLen(_)
EscapeLen(s) ==
    IF s = <<>> THEN 0
    ELSE IF Head(s) = "m" THEN 1
    ELSE IF EscapeLen(Tail(s)) = 0 THEN 0 ELSE 1 + EscapeLen(Tail(s))

\* clean_ansi(s): re.sub of \x1b[^m]*m by ''
RECURSIVE clean_ansi(_)
clean_ansi(s) ==
    IF s = <<>> THEN <<>>
    ELSE IF Head(s) = "^" /\ EscapeLen(Tail(s)) > 0
    THEN clean_ansi(SubSeq(s, 2 + EscapeLen(Tail(s)), Len(s)))
    ELSE <<Head(s)>> \o clean_ansi(Tail(s))

\* c in s
InStr(c, s) == \E i \in 1..Len(s) : s[i] = c

\* s.startswith(old)
StartsWith(s, old) == Len(old) <= Len(s) /\ SubSeq(s, 1, Len(old)) = old

\* s.replace(old, new) for an old that is not empty
RECURSIVE Replace(_, _, _)
Replace(s, old, new) ==
    IF s = <<>> THEN <<>>
    ELSE IF StartsWith(s, old)
    THEN new \o Replace(SubSeq(s, Len(old) + 1, Len(s)), old, new)
    ELSE <<Head(s)>> \o Replace(Tail(s), old, new)

\* hr_sep * w: no character for a w below 1
Rule(w) == [i \in 1..w |-> hr_sep]

\* lines 806-814: the width of the widest line without hr_marker
RECURSIVE MaxWidthLoop(_, _)
MaxWidthLoop(lines, mw) ==
    IF lines = <<>> THEN mw
    ELSE IF InStr(hr_marker, Head(lines)) \/ Len(Head(lines)) < mw
    THEN MaxWidthLoop(Tail(lines), mw)
    ELSE MaxWidthLoop(Tail(lines), Max(mw, Len(clean_ansi(Head(lines)))))

\* lines 806-808: the lines with hr_marker
Hrs(lines) == SelectSeq(lines, LAMBDA l : InStr(hr_marker, l))

\* line 819: len(hcl) - len(hcl.split(hr_marker, 1)[1]) - 1, the characters
\* before the first hr_marker of hcl
RECURSIVE MarkerOffset(_)
MarkerOffset(hcl) ==
    IF hcl = <<>> \/ Head(hcl) = hr_marker THEN 0
    ELSE 1 + MarkerOffset(Tail(hcl))

\* line 820
HrWidth(hr, mw, cols) == Min(cols, mw) - 2 * MarkerOffset(clean_ansi(hr))

\* lines 815-822
RECURSIVE HrLoop(_, _, _, _)
HrLoop(hrs, result, mw, cols) ==
    IF hrs = <<>> THEN result
    ELSE HrLoop(Tail(hrs),
                Replace(result, Head(hrs),
                        Replace(Head(hrs), <<hr_marker>>,
                                Rule(HrWidth(Head(hrs), mw, cols)))),
                mw, cols)

\* set_hr_widths(result) with the global term_columns
set_hr_widths(result, cols) ==
    IF ~InStr(hr_marker, result) THEN result
    ELSE HrLoop(Hrs(splitlines(result)), result,
                MaxWidthLoop(splitlines(result), 0), cols)

\* lines 1030-1033 of main: what it returns for the text ansi
main_return(text, cols, no_colors) ==
    IF no_colors THEN clean_ansi(set_hr_widths(text, cols) \o <<"\n">>)
    ELSE set_hr_widths(text, cols) \o <<"\n">> \o <<"\n">>

\* col(s, c) as characters: the escape sequence of the color c, s, reset_col
ColChars(s, c) == <<"^", c, "m">> \o s \o <<"^", "0", "m">>

\* Tags.hr('', hir=hir) as characters (lines 446-451)
HrChars(hir) ==
    ColChars(<<"\n">>
               \o [i \in 1..((hir - 1) * left_indent) |-> " "]
               \o ColChars(<<"o">>, ToString(hir)) \o <<hr_marker>>
               \o ColChars(<<"o">>, ToString(hir))
               \o [i \in 1..((hir - 1) * left_indent) |-> " "]
               \o <<"\n">>,
             "L")

MaxAnsiWidth == 6
MaxEntries == 3
MaxHrHir == 3

\* the entries of out: a rule, or a text of some width in the text color
Entries ==
    {HrChars(hir) : hir \in 1..MaxHrHir}
    \cup {ColChars([i \in 1..n |-> "a"], "T") : n \in 0..MaxAnsiWidth}

\* '\n'.join(out) (line 791)
AnsiTexts ==
    {JoinLines(es) : es \in UNION {[1..n -> Entries] : n \in 1..MaxEntries}}

NoReturn == [done |-> FALSE]

ReturnIdle == ansi = <<>> /\ mret = NoReturn

\* main ends: the rules get their widths and the text is returned, without
\* the colors if no_colors is set
MainReturn ==
    /\ \E no_colors \in BOOLEAN :
         mret' = [done |-> TRUE, no_colors |-> no_colors, cols |-> term_columns,
                 hr |-> set_hr_widths(ansi, term_columns),
                 text |-> main_return(ansi, term_columns, no_colors)]
    /\ UNCHANGED <<paletteVars, tableVars, rewrapVars, fmtVars, hiliteVars,
                   styleVars, ansi, monVars>>

(***************************************************************************)
(* monitor_dir (lines 1099-1183) on a flat directory of text files.  A     *)
(* file name is the sequence of its parts between the dots: <<"README">>,  *)
(* <<"a", "md">>, <<"a", "">> for 'a.'.  The extensions given with -M are  *)
(* the sequence of the names between the commas, <<>> when none is given.  *)
(***************************************************************************)
\* lines 1119-1120: exts of the argument, 'md,mdown,markdown' by default
ExtsOf(given) == IF given = <<>> THEN <<"md", "mdown", "markdown">> ELSE given

\* f_ext in exts
InExts(e, exts) == \E i \in 1..Len(exts) : exts[i] = e

\* lines 1148-1150: f.rsplit('.', 1)[-1]; "f_ext == ''" compares and leaves
\* the name without dot as its own extension
f_ext(f) == f[Len(f)]

\* line 1151 for the file f
Monitored(f, exts) == InExts(f_ext(f), exts)

\* ftree.get(fp): 0 stands for None, which "not old" takes like the size 0
FtreeGet(ftree, f) == IF f \in DOMAIN ftree THEN ftree[f] ELSE 0

\* lines 1153-1169 for the file f of size now: it is displayed
Displayed(ftree, f, now) ==
    /\ now # FtreeGet(ftree, f)
    /\ FtreeGet(ftree, f) # 0

\* lines 1145-1169: ftree after the pass over the files fs
FtreeAfter(ftree, fs, exts) ==
    [f \in DOMAIN ftree \cup {g \in DOMAIN fs : Monitored(g, exts)} |->
        IF f \in DOMAIN fs /\ Monitored(f, exts) THEN fs[f] ELSE ftree[f]]

\* the files the pass displays
ShownBy(ftree, fs, exts) ==
    {f \in DOMAIN fs : Monitored(f, exts) /\ Displayed(ftree, f, fs[f])}

MaxSize == 2

FileNames == {<<"README">>, <<"a", "md">>, <<"md">>}

MonitorArgs == {<<>>, <<"py", "md">>, <<"py", "c", "md", "">>}

EmptyTree == [f \in {} |-> 0]

NoMonitor ==
    [exts |-> <<>>, ftree |-> EmptyTree, first |-> FALSE, shown |-> {},
     prev |-> EmptyTree, cur |-> EmptyTree]

MonitorIdle == mon_fs = EmptyTree /\ mon = NoMonitor

\* one round of the loop of lines 1174-1183: check_dir, and in the first
\* round the file seen latest, one of the monitored files
CheckDir ==
    /\ mon.exts # <<>>
    /\ \E latest \in {f \in DOMAIN mon_fs : Monitored(f, mon.exts)} \cup {<<>>} :
         /\ (latest = <<>>) <=>
                (~mon.first \/ \A f \in DOMAIN mon_fs : ~Monitored(f, mon.exts))
         /\ mon' = [exts |-> mon.exts,
                    ftree |-> FtreeAfter(mon.ftree, mon_fs, mon.exts),
                    first |-> FALSE,
                    shown |-> ShownBy(mon.ftree, mon_fs, mon.exts)
                                \cup (IF latest = <<>> THEN {} ELSE {latest}),
                    prev |-> mon.cur, cur |-> mon_fs]
    /\ UNCHANGED <<paletteVars, tableVars, rewrapVars, fmtVars, hiliteVars,
                   styleVars, returnVars, mon_fs>>

\* a file of the directory is written between two rounds
WriteFile ==
    /\ \E f \in DOMAIN mon_fs, size \in 0..MaxSize :
         /\ size # mon_fs[f]
         /\ mon_fs' = [mon_fs EXCEPT ![f] = size]
    /\ UNCHANGED <<paletteVars, tableVars, rewrapVars, fmtVars, hiliteVars,
                   styleVars, returnVars, mon>>

UtilIdle == StyleIdle /\ ReturnIdle /\ MonitorIdle

(***************************************************************************)
(* Specifications: one per part of the program                             *)
(***************************************************************************)
PaletteIdle ==
    /\ InitGlobals
    /\ themes = EmptyCatalog
    /\ catalog_file = [readable |-> FALSE, content |-> EmptyCatalog]
    /\ environ = [k \in EnvNames |-> ""]

InitTable ==
    /\ PaletteIdle
    /\ table \in Tables
    /\ tout = NoTout
    /\ RewrapIdle
    /\ FmtIdle
    /\ HiliteIdle
    /\ UtilIdle

NextTable == FormatTable \/ SetCols

SpecTable == InitTable /\ [][NextTable]_vars

InitTheme ==
    /\ InitGlobals
    /\ TableIdle
    /\ RewrapIdle
    /\ FmtIdle
    /\ HiliteIdle
    /\ UtilIdle
    /\ \/ \E i \in 2..Len(Catalogs) :
            /\ themes = Catalogs[i]
            /\ catalog_file = [readable |-> FALSE, content |-> EmptyCatalog]
       \/ /\ themes = EmptyCatalog
          /\ \/ catalog_file = [readable |-> FALSE, content |-> EmptyCatalog]
             \/ \E i \in 1..Len(Catalogs) :
                  catalog_file = [readable |-> TRUE, content |-> Catalogs[i]]
    /\ environ \in [EnvNames -> {"", "t1", "t2"}]
    /\ environ["MDV_THEME"] # "t2" /\ environ["MDV_CODE_THEME"] # "t2"
    /\ environ["AXC_THEME"] # "t1" /\ environ["AXC_CODE_THEME"] # "t1"

NextTheme == SetTheme

SpecTheme == InitTheme /\ [][NextTheme]_vars

InitMain ==
    /\ InitGlobals
    /\ TableIdle
    /\ RewrapIdle
    /\ FmtIdle
    /\ HiliteIdle
    /\ UtilIdle
    /\ \/ /\ themes = Catalogs[2]
          /\ catalog_file = [readable |-> FALSE, content |-> EmptyCatalog]
       \/ /\ themes = EmptyCatalog
          /\ catalog_file = [readable |-> TRUE, content |-> Catalogs[2]]
    /\ environ \in [EnvNames -> {"", "t2"}]
    /\ environ["AXC_THEME"] = "" /\ environ["AXC_CODE_THEME"] = ""

NextMain == Main \/ RollerStep \/ MainCode \/ MainRender

SpecMain == InitMain /\ [][NextMain]_vars

InitRewrap ==
    /\ PaletteIdle
    /\ TableIdle
    /\ rw_in \in Texts \cup Placeholders
    /\ rw_out = NoRewrap
    /\ FmtIdle
    /\ HiliteIdle
    /\ UtilIdle

NextRewrap == Rewrap \/ SetCols

SpecRewrap == InitRewrap /\ [][NextRewrap]_vars

\* one run of the formatter on a document, with links shown or not
InitFmt ==
    /\ PaletteIdle
    /\ TableIdle
    /\ RewrapIdle
    /\ HiliteIdle
    /\ UtilIdle
    /\ doc \in Docs
    /\ todo = <<CallFrame(1, 0, 0, NoPref, FALSE)>>
    /\ out = <<<<>>>>
    /\ tcells = <<>>
    /\ ferr = ""

NextFmt == FormatNode \/ CellEnd \/ TableJoin \/ SetLinks

SpecFmt == InitFmt /\ [][NextFmt]_vars

InitHilite ==
    /\ PaletteIdle
    /\ TableIdle
    /\ RewrapIdle
    /\ FmtIdle
    /\ hl_md \in Sources
    /\ hl_out = NoHilite
    /\ UtilIdle

NextHilite == DoCodeHilite

SpecHilite == InitHilite /\ [][NextHilite]_vars

\* code is highlighted: style_ansi with any hint, guess setting and default
InitStyle ==
    /\ PaletteIdle
    /\ TableIdle
    /\ RewrapIdle
    /\ FmtIdle
    /\ HiliteIdle
    /\ sa_in \in [lang : Hints, code : Codes]
    /\ sa_out = NoStyle
    /\ ReturnIdle
    /\ MonitorIdle

NextStyle == StyleAnsi \/ SetLexerArg \/ SetNoGuess \/ BuildTokens

SpecStyle == InitStyle /\ [][NextStyle]_vars

\* main returns a rendered text, for any width of the terminal
InitReturn ==
    /\ PaletteIdle
    /\ TableIdle
    /\ RewrapIdle
    /\ FmtIdle
    /\ HiliteIdle
    /\ StyleIdle
    /\ ansi \in AnsiTexts
    /\ mret = NoReturn
    /\ MonitorIdle

NextReturn == MainReturn \/ SetCols

SpecReturn == InitReturn /\ [][NextReturn]_vars

\* monitor_dir is started on a directory, with or without extensions
InitMonitor ==
    /\ PaletteIdle
    /\ TableIdle
    /\ RewrapIdle
    /\ FmtIdle
    /\ HiliteIdle
    /\ StyleIdle
    /\ ReturnIdle
    /\ mon_fs \in [FileNames -> 1..MaxSize]
    /\ \E given \in MonitorArgs :
         mon = [NoMonitor EXCEPT !.exts = ExtsOf(given), !.first = TRUE]

NextMonitor == CheckDir \/ WriteFile

SpecMonitor == InitMonitor /\ [][NextMonitor]_vars

(***************************************************************************)
(* Claims about the palette                                                *)
(***************************************************************************)
\* the catalog entry set_theme looked up carries exactly 5 colors
EntryHasFive(cat, name) ==
    /\ name \in DOMAIN cat
    /\ "ct" \in DOMAIN cat[name]
    /\ Len(cat[name].ct) = 5

\* C1: with the catalog at hand, a set_theme call whose entry carries exactly
\* 5 colors makes them the 5 heading colors (the 5 code colors when for_code),
\* in order; with fewer or more than 5 colors, no color list, or a name that
\* is not in the catalog, the call returns without an exception and the 10
\* colors are as before.
C1_SetThemeContract ==
    (last.op = "set_theme" /\ DOMAIN themes # {}) =>
        IF EntryHasFive(themes, last.name)
        THEN /\ last.raised = ""
             /\ IF last.for_code
                THEN CH = themes[last.name].ct /\ H = last.before.H
                ELSE H = themes[last.name].ct /\ CH = last.before.CH
        ELSE /\ last.raised = ""
             /\ H = last.before.H
             /\ CH = last.before.CH

\* the first non-empty of the two environment variables of set_theme, or ""
EnvTheme(for_code) ==
    IF for_code
    THEN IF environ["MDV_CODE_THEME"] # "" THEN environ["MDV_CODE_THEME"]
         ELSE environ["AXC_CODE_THEME"]
    ELSE IF environ["MDV_THEME"] # "" THEN environ["MDV_THEME"]
         ELSE environ["AXC_THEME"]

\* C2 as stated: a theme argument that is given (not None) is the theme
\* used or, failing that, the default, never the environment's; with no
\* argument the environment variable is used and, without one, 'random' for
\* text and nothing (colors kept) for code.
C2_ExplicitFirst ==
    last.op = "set_theme" =>
        IF last.theme # NoneV
        THEN last.resolved \in {last.theme, IF last.for_code THEN NoneV ELSE "random"}
        ELSE IF EnvTheme(last.for_code) # ""
             THEN last.resolved = EnvTheme(last.for_code)
             ELSE /\ last.resolved = (IF last.for_code THEN NoneV ELSE "random")
                  /\ last.for_code => CH = last.before.CH

\* C2 amended: "not given" is None for text and the name 'default' for code.
\* An argument other than that is the theme used, whatever the environment
\* holds (for code, None is used as it is: no theme, no change).  With the
\* argument not given, the first non-empty of MDV_THEME, AXC_THEME (for code
\* MDV_CODE_THEME, AXC_CODE_THEME) is used, and without one 'random' for
\* text and no theme for code, whose colors keep their prior values.
C2_SentinelFirst ==
    last.op = "set_theme" =>
        LET notGiven == IF last.for_code THEN last.theme = "default"
                                         ELSE last.theme = NoneV
        IN
        /\ ~notGiven => last.resolved = last.theme
        /\ (notGiven /\ EnvTheme(last.for_code) # "")
              => last.resolved = EnvTheme(last.for_code)
        /\ (notGiven /\ EnvTheme(last.for_code) = "")
              => /\ last.resolved = (IF last.for_code THEN NoneV ELSE "random")
                 /\ last.for_code => CH = last.before.CH /\ H = last.before.H
        /\ (last.for_code /\ last.resolved = NoneV)
              => CH = last.before.CH /\ last.raised = ""

\* C2's case: the code theme not given, MDV_CODE_THEME empty, AXC_CODE_THEME
\* naming a theme, which set_theme applied
C2_Witness ==
    /\ last.op = "set_theme"
    /\ last.for_code
    /\ last.theme = "default"
    /\ environ["MDV_CODE_THEME"] = ""
    /\ environ["AXC_CODE_THEME"] = "t2"
    /\ last.resolved = "t2"
    /\ CH = ColorsB
    /\ last.before.CH # ColorsB

\* C3: with no pre-loaded themes and the catalog file unreadable, set_theme
\* raises nothing and the heading and code colors are as before.
C3_MissingCatalogSoft ==
    (last.op = "set_theme" /\ DOMAIN themes = {} /\ ~catalog_file.readable) =>
        /\ last.raised = ""
        /\ H = last.before.H
        /\ CH = last.before.CH

\* what a render reads when nothing but the palette is carried into main
FreshUse(a) ==
    [term_columns |-> IF a.cols # 0 THEN a.cols ELSE ImportTermColumns,
     def_lexer |-> IF Truthy(a.c_def_lexer) THEN a.c_def_lexer ELSE ImportDefLexer,
     admons |-> DOMAIN ImportAdmons]

\* C4: the column count, default lexer and admonition keywords a finished
\* main() rendered with are those its own arguments give, whatever
\* invocations came before.
C4_OnlyPaletteCarried ==
    (last.op = "main" /\ pc = "idle" /\ last.raised = "") =>
        last.use = FreshUse(last.args)

\* C5: when main() is called without c_theme, after the theme setup the code
\* colors CH1..CH5 equal the heading colors H1..H5 of this invocation.
C5_CodeUsesTextTheme ==
    (last.op = "main" /\ pc = "render" /\ ~Truthy(last.args.c_theme)) => CH = H

(***************************************************************************)
(* Claims about the table                                                  *)
(***************************************************************************)
\* the table's plain lines with the borders drawn, each padded to width w
\* (w = 0: as they are)
TableShown(t, w) ==
    borders([i \in 1..Len(t.lines) |->
                [cont |-> FALSE, text |-> Ljust(t.lines[i], w, i),
                 style |-> "plain"]])

\* line i's chunks of the blocks 1..n, continuation prefix removed, joined
RECURSIVE JoinChunks(_, _, _)
JoinChunks(blocks, i, n) ==
    IF n = 0 THEN <<>> ELSE JoinChunks(blocks, i, n - 1) \o blocks[n][i].text

\* C6: a table at most term_columns wide is not split: its lines are appended
\* one per line, indented by the hierarchy; a wider one is split into two or
\* more blocks, and every line's chunks, joined in block order, are the
\* line (padded with spaces to the table's width).
C6_SplitIffWider ==
    tout.done =>
        IF table.w <= tout.cols
        THEN /\ ~tout.res.split
             /\ tout.res.raised = ""
             /\ tout.res.indent = table.hir
             /\ Len(tout.res.lines) = Len(table.lines)
             /\ \A i \in 1..Len(table.lines) :
                  tout.res.lines[i].text = TableShown(table, 0)[i].text
        ELSE /\ tout.res.split
             /\ tout.res.raised = ""
             /\ Len(tout.res.blocks) >= 2
             /\ \A i \in 1..Len(table.lines) :
                  JoinChunks(tout.res.blocks, i, Len(tout.res.blocks))
                      = TableShown(table, table.w)[i].text

\* C7: for every positive term_columns and every table wider than it, the
\* split raises nothing and every character of every table row is in one of
\* the blocks.
C7_SplitNeverFails ==
    (tout.done /\ tout.cols >= 1 /\ table.w > tout.cols) =>
        /\ tout.res.raised = ""
        /\ \A i \in 2..(Len(table.lines) - 1) :
             \A j \in 1..Len(table.lines[i]) :
               \E b \in 1..Len(tout.res.blocks) :
                 \E k \in 1..Len(tout.res.blocks[b][i].text) :
                   tout.res.blocks[b][i].text[k] = table.lines[i][j]


\* the printable width of a rendered line: the blank and the continuation
\* glyph of a continuation line, then its characters (colors print nothing)
PrintWidth(ln) == (IF ln.cont THEN 2 ELSE 0) + Len(ln.text)

\* C21: when a table is split for a terminal of cols >= 3 columns, every line
\* of every block is at most cols wide: a line of the first block is exactly
\* cols characters of the table, and a line of a later block is the blank,
\* the continuation glyph and at most cols - 2 characters of the table.
C21_SplitLinesFit ==
    (tout.done /\ tout.res.split /\ tout.cols >= 3) =>
        \A b \in 1..Len(tout.res.blocks) :
          \A i \in 1..Len(tout.res.blocks[b]) :
            /\ PrintWidth(tout.res.blocks[b][i]) <= tout.cols
            /\ IF b = 1
               THEN /\ ~tout.res.blocks[b][i].cont
                    /\ Len(tout.res.blocks[b][i].text) = tout.cols
               ELSE /\ tout.res.blocks[b][i].cont
                    /\ Len(tout.res.blocks[b][i].text) <= tout.cols - 2

\* a table split into three blocks for four columns or more: the lines of
\* the second block fill the terminal, those of the last one are shorter
C21_Witness ==
    /\ tout.done /\ tout.res.split /\ tout.cols >= 4
    /\ tout.res.raised = ""
    /\ Len(tout.res.blocks) >= 3
    /\ \A i \in 1..Len(table.lines) :
         /\ PrintWidth(tout.res.blocks[1][i]) = tout.cols
         /\ PrintWidth(tout.res.blocks[2][i]) = tout.cols
         /\ PrintWidth(tout.res.blocks[Len(tout.res.blocks)][i]) < tout.cols


(***************************************************************************)
(* Claims about the reflow                                                 *)
(***************************************************************************)
\* the number of printable characters of a text
Printable(s) == Cardinality({i \in 1..Len(s) : s[i] = "a"})

\* a line break of the text lies between a start marker and its end marker
BreakInSpan(s) ==
    \E i \in 1..Len(s) : s[i] = "\n" /\ Depth(SubSeq(s, 1, i)) > 0

IsPlaceholder(s) == s # <<>> /\ s[1] = "P" /\ s[Len(s)] = "Q"

\* C8: for every text, indent and prefix, rewrap never increases the number
\* of printable characters, never places a line break inside a marker span
\* (a break inside a span of the result was there in the text), and returns
\* a placeholder (\x02 ... \x03) as it is.
C8_ReflowKeepsSpans ==
    rw_out.done =>
        /\ Printable(rw_out.text) <= Printable(rw_in)
        /\ BreakInSpan(rw_out.text) => BreakInSpan(rw_in)
        /\ IsPlaceholder(rw_in) => rw_out.text = rw_in

\* the two parts of C8 that do not concern the marker spans
C8_CountAndPlaceholder ==
    rw_out.done =>
        /\ Printable(rw_out.text) <= Printable(rw_in)
        /\ IsPlaceholder(rw_in) => rw_out.text = rw_in


(***************************************************************************)
(* Claims about the block formatter                                        *)
(***************************************************************************)
\* C9: for every document tree, with any tags, any nesting depth and any
\* missing attributes, the formatter completes without raising an error.
C9_FormatterNeverFails == ferr = ""

\* the parts of C9 that hold: a tag the Tags class has no function for is
\* rendered by plain in the text color, and a link is shown with the value of
\* an attribute the element has
C9_UnknownTagPlain ==
    \A b \in 1..Len(out) : \A n \in 1..Len(out[b]) : \A k \in 1..Len(out[b][n]) :
        LET part == out[b][n][k] IN
        /\ part.fn = "plain" => part.color = T_
        /\ part.fn = "link" => part.lines = <<<<"u">>>>

(***************************************************************************)
(* Claims about the docstring extractor                                    *)
(***************************************************************************)
\* the body lines of the markdown docstring blocks of the lines, in order;
\* closer is the delimiter that ends the block the lines are in ("": none)
RECURSIVE DocBodies(_, _)
DocBodies(ls, closer) ==
    IF ls = <<>> THEN <<>>
    ELSE IF closer = ""
    THEN DocBodies(Tail(ls), IF Head(ls) \in Openers THEN MdStart(Head(ls)) ELSE "")
    ELSE IF Head(ls) = closer THEN DocBodies(Tail(ls), "")
    ELSE <<Head(ls)>> \o DocBodies(Tail(ls), closer)

\* every docstring block of the lines is closed
RECURSIVE AllClosed(_, _)
AllClosed(ls, closer) ==
    IF ls = <<>> THEN closer = ""
    ELSE IF closer = ""
    THEN AllClosed(Tail(ls), IF Head(ls) \in Openers THEN MdStart(Head(ls)) ELSE "")
    ELSE AllClosed(Tail(ls), IF Head(ls) = closer THEN "" ELSE closer)

NonEmptyLines(ls) == SelectSeq(ls, LAMBDA l : l # "")

\* C10: with mode 'doc', do_code_hilite outputs the body lines of every
\* markdown docstring block of the input, in input order, and no code line
\* (empty lines aside, for a text whose blocks are all closed).
C10_DocEveryDocstring ==
    (hl_out.done /\ hl_out.what = "doc" /\ AllClosed(hl_md, ""))
        => NonEmptyLines(hl_out.lines) = NonEmptyLines(DocBodies(hl_md, ""))

\* with mode 'doc' the output is the body of the first docstring block
RECURSIVE FirstBody(_, _)
FirstBody(ls, closer) ==
    IF ls = <<>> THEN <<>>
    ELSE IF closer = ""
    THEN FirstBody(Tail(ls), IF Head(ls) \in Openers THEN MdStart(Head(ls)) ELSE "")
    ELSE IF Head(ls) = closer THEN <<>>
    ELSE <<Head(ls)>> \o FirstBody(Tail(ls), closer)

C10_DocFirstDocstring ==
    (hl_out.done /\ hl_out.what = "doc")
        => NonEmptyLines(hl_out.lines) = NonEmptyLines(FirstBody(hl_md, ""))

\* C11: with mode 'mod', do_code_hilite outputs only the module level
\* docstring: the body lines of the first markdown docstring block, and
\* nothing of what follows its closing delimiter (empty lines aside).
C11_ModFirstDocstring ==
    (hl_out.done /\ hl_out.what = "mod")
        => NonEmptyLines(hl_out.lines) = NonEmptyLines(FirstBody(hl_md, ""))

\* what the code does with mode 'mod': the bodies of all the docstring
\* blocks, that of a last block left open too, and no code line
C11_ModEveryDocstring ==
    (hl_out.done /\ hl_out.what = "mod")
        => NonEmptyLines(hl_out.lines) = NonEmptyLines(DocBodies(hl_md, ""))

(***************************************************************************)
(* Claims about the admonitions of the formatter                           *)
(***************************************************************************)
\* the next pending call is for an element whose text is read by the text
\* branch and starts with "!!! "
AdmonCall ==
    /\ todo # <<>>
    /\ Head(todo).k = "call"
    /\ doc[Head(todo).el].tag = "p"
    /\ Len(doc[Head(todo).el].text) >= 2
    /\ doc[Head(todo).el].text[1] = "!!!"
    /\ doc[Head(todo).el].text[2] = " "

\* the keyword of the text of the pending call: what stands between "!!! "
\* and the next blank
KeywordOf(f) == JoinStr(FirstWord(SubSeq(doc[f.el].text, 3, Len(doc[f.el].text))))

\* the last part of the entry before the last one of the buffer
LastText(buf) == buf[Len(buf) - 1][Len(buf[Len(buf) - 1])]

\* the call has put an admonition of keyword k to the buffer: the label
\* prefix (the list prefix of the parent goes before it) and the body in the
\* keyword's color, between two newline entries
AdmonRendered(f, k, buf) ==
    /\ Len(buf) >= 2
    /\ buf[Len(buf)] = NL
    /\ LastText(buf).fn = "p"
    /\ LastText(buf).lines # <<>>
    /\ LastText(buf).pref = (IF f.pref.s # "" THEN f.pref.s ELSE "| " \o Capitalize(k))
    /\ LastText(buf).prefcolor = ColorGlobal(Globals, admons'[k])
    /\ LastText(buf).bodycolor = ColorGlobal(Globals, admons'[k])

\* C12: a text node starting with "!!! <keyword> " whose keyword is not in
\* the admonition table does not fail; the keyword is registered in the
\* table with a default color and the node is rendered as an admonition.
C12_UnknownAdmonRendered ==
    [][(AdmonCall /\ KeywordOf(Head(todo)) \notin DOMAIN admons)
          => /\ ferr' = ""
             /\ KeywordOf(Head(todo)) \in DOMAIN admons'
             /\ AdmonRendered(Head(todo), KeywordOf(Head(todo)), Head(out'))]_vars

\* the same for a keyword that is not empty: it takes the color of the first
\* entry of the table
C12_NamedAdmonRendered ==
    [][(AdmonCall /\ KeywordOf(Head(todo)) \notin DOMAIN admons
                  /\ KeywordOf(Head(todo)) # "")
          => /\ ferr' = ""
             /\ KeywordOf(Head(todo)) \in DOMAIN admons'
             /\ admons'[KeywordOf(Head(todo))] \in FirstValues(admons)
             /\ AdmonRendered(Head(todo), KeywordOf(Head(todo)), Head(out'))]_vars

(***************************************************************************)
(* Claims about the lexer of style_ansi                                    *)
(***************************************************************************)
\* C13: lexer resolution in style_ansi never blocks rendering: for every
\* hint, guess setting and configured default lexer name the call returns
\* highlighted text rather than raising.
C13_LexerNeverBlocks == sa_out.done => sa_out.raised = ""

\* the part of C13 that holds: a known hint selects its lexer, and without a
\* hint the guessed lexer or else a known default is taken
C13_KnownHintSelected ==
    sa_out.done =>
        /\ sa_in.lang \in Lexers => (sa_out.raised = "" /\ sa_out.lexer = sa_in.lang)
        /\ (~Truthy(sa_in.lang) /\ def_lexer \in Lexers) => sa_out.raised = ""
        /\ (~Truthy(sa_in.lang) /\ ~guess_lexer /\ def_lexer \in Lexers)
              => sa_out.lexer = def_lexer

\* an unknown hint ends in the TypeError of the warning, whatever the guess
\* setting and the default
C13_UnknownHintRaises ==
    (sa_out.done /\ Truthy(sa_in.lang) /\ sa_in.lang \notin Lexers)
        => sa_out.raised = "TypeError"

(***************************************************************************)
(* Claims about the text main returns                                      *)
(***************************************************************************)
\* C14: the string main returns with no-color requested is exactly the
\* string it returns without no-color with every escape sequence removed
\* (same characters, same newlines), and it contains no escape sequence.
C14_NoColorIsCleaned ==
    (mret.done /\ mret.no_colors) =>
        /\ mret.text = clean_ansi(main_return(ansi, mret.cols, FALSE))
        /\ ~InStr("^", mret.text)

\* what holds: the string with no-color is the cleaned colored one less its
\* last newline
C14_NoColorLacksNewline ==
    (mret.done /\ mret.no_colors) =>
        /\ mret.text \o <<"\n">> = clean_ansi(main_return(ansi, mret.cols, FALSE))
        /\ ~InStr("^", mret.text)

(***************************************************************************)
(* Claims about the widths of the rules                                    *)
(***************************************************************************)
\* the number of rule characters of a line
RuleCount(line) == Len(SelectSeq(line, LAMBDA c : c = hr_sep))

\* the greatest escape-stripped width of the lines that hold no rule
RECURSIVE WidestText(_)
WidestText(lines) ==
    IF lines = <<>> THEN 0
    ELSE IF InStr(hr_marker, Head(lines)) THEN WidestText(Tail(lines))
    ELSE Max(Len(clean_ansi(Head(lines))), WidestText(Tail(lines)))

\* min(terminal_columns, max_width_seen) - 2 * indent for line i of the text
RuleWidth(i) ==
    Min(mret.cols, WidestText(splitlines(ansi)))
        - 2 * MarkerOffset(clean_ansi(splitlines(ansi)[i]))

\* C17: set_hr_widths replaces every rule placeholder by exactly
\* min(terminal_columns, max_width_seen) - 2*indent rule characters, and the
\* count is never negative.
C17_RuleWidthExact ==
    mret.done =>
        \A i \in 1..Len(splitlines(ansi)) :
            InStr(hr_marker, splitlines(ansi)[i]) =>
                /\ RuleWidth(i) >= 0
                /\ RuleCount(splitlines(mret.hr)[i]) = RuleWidth(i)

\* what holds: a count below zero gives a rule without rule characters
C17_RuleWidthOrNone ==
    mret.done =>
        /\ Len(splitlines(mret.hr)) = Len(splitlines(ansi))
        /\ \A i \in 1..Len(splitlines(ansi)) :
            InStr(hr_marker, splitlines(ansi)[i]) =>
                /\ ~InStr(hr_marker, splitlines(mret.hr)[i])
                /\ RuleCount(splitlines(mret.hr)[i]) = Max(RuleWidth(i), 0)

(***************************************************************************)
(* Claims about the directory monitor                                      *)
(***************************************************************************)
\* the size of f differs between the last two rounds
SizeChanged(f) ==
    /\ f \in DOMAIN mon.prev
    /\ f \in DOMAIN mon.cur
    /\ mon.prev[f] # mon.cur[f]

\* C15: when the extension list given with -M ends in an empty entry, a
\* file without any extension is monitored, and is displayed when its size
\* changes.
C15_NoExtensionShown ==
    InExts("", mon.exts) =>
        \A f \in DOMAIN mon.cur :
            Len(f) = 1 =>
                /\ f \in DOMAIN mon.ftree
                /\ SizeChanged(f) => f \in mon.shown

\* what the code does: a file without a dot is monitored only if its whole
\* name is one of the extensions
C15_NoExtensionByName ==
    \A f \in DOMAIN mon.cur :
        Len(f) = 1 => (f \in DOMAIN mon.ftree <=> InExts(f[1], mon.exts))

\* a file with a listed extension is displayed when its size changes from a
\* size that is not 0
C15_ListedExtensionShown ==
    \A f \in DOMAIN mon.cur :
        (Len(f) = 2 /\ InExts(f[2], mon.exts) /\ SizeChanged(f) /\ mon.prev[f] # 0)
            => f \in mon.shown

(***************************************************************************)
(* Claims about the rules, lists and headers of the formatter              *)
(***************************************************************************)
\* the parts the run has put to its out lists
OutParts ==
    UNION {UNION {{out[b][n][k] : k \in 1..Len(out[b][n])} : n \in 1..Len(out[b])} :
              b \in 1..Len(out)}

\* C16: for an hr node reached at hierarchy level h (any h >= 0) the
\* formatter emits a rule placeholder whose end glyphs have the heading
\* color H<((h-2) mod 5)+1>, the index being always within 1..5.
C16_HrColorRotated ==
    /\ ferr # "KeyError"
    /\ \A part \in OutParts :
         part.fn = "hr" => part.color = H[((part.hir - 2) % 5) + 1]

\* what the code does: the color is H<h> for h in 1..5
C16_HrColorByHierarchy ==
    \A part \in OutParts :
        part.fn = "hr" => (part.hir \in 1..5 /\ part.color = H[part.hir])

\* the prefixes the list containers set on their children
ListPrefs == {list_pref} \cup {ToString(k) \o ". " : k \in 1..MaxNodes}

\* the next pending call is for a list container that has no text of its own
ListCall(tag) ==
    /\ todo # <<>>
    /\ Head(todo).k = "call"
    /\ doc[Head(todo).el].tag = tag
    /\ doc[Head(todo).el].text = <<>>
    /\ getchildren(doc, Head(todo).el) # <<>>

\* the calls for the children of the container come next, the k-th with the
\* prefix PrefAt(k) and one hierarchy level below the container
ChildrenAnnotated(f, PrefAt(_)) ==
    /\ ferr' = ""
    /\ Len(todo') >= Len(getchildren(doc, f.el))
    /\ \A k \in 1..Len(getchildren(doc, f.el)) :
         /\ todo'[k].k = "call"
         /\ todo'[k].el = getchildren(doc, f.el)[k]
         /\ todo'[k].hir = f.hir + 1
         /\ todo'[k].pref.s = PrefAt(k)

BulletAt(k) == list_pref

OrdinalAt(k) == ToString(k) \o ". "

\* C18, the annotation: each child of an unordered list gets the bullet
\* prefix "- " and the k-th child of an ordered list the ordinal prefix
\* "k. ", before the children are formatted.
C18_ChildrenAnnotated ==
    [][/\ ListCall("ul") => ChildrenAnnotated(Head(todo), BulletAt)
       /\ ListCall("ol") => ChildrenAnnotated(Head(todo), OrdinalAt)]_vars

\* C18: each rendered item line begins with two spaces per hierarchy level
\* of the item, followed by the bullet or ordinal prefix in the heading
\* color H<((hierarchy-2) mod 5)+1>.
C18_ItemIndentAndColor ==
    \A part \in OutParts :
        (part.fn = "plain" /\ part.pref \in ListPrefs) =>
            /\ part.ind = left_indent * part.hir
            /\ part.prefcolor = H[((part.hir - 2) % 5) + 1]

\* what holds: so it is for the items that are not admonitions (whose
\* prefix has the color of the admonition)
C18_PlainItemIndentAndColor ==
    \A part \in OutParts :
        (part.fn = "plain" /\ part.pref \in ListPrefs /\ part.bodycolor = 0) =>
            /\ part.ind = left_indent * part.hir
            /\ part.prefcolor = H[((part.hir - 2) % 5) + 1]

\* the next pending call is for a header
HeaderCall ==
    /\ todo # <<>>
    /\ Head(todo).k = "call"
    /\ doc[Head(todo).el].tag \in header_tags

\* the part the call has put to the end of its out list
NewPart == Head(out')[Len(Head(out'))][1]

\* the call f for a header of level n has appended the text by Tags.h (which
\* puts a newline before it) in the color H<min(n, 5)> after n - 1 blanks, at
\* the hierarchy raised by n, which its children are formatted below
HeaderAppended(f, n) ==
    /\ ferr' = ""
    /\ Len(Head(out')) = Len(Head(OutOf(f))) + 1
    /\ NewPart.fn = "h"
    /\ NewPart.color = H[Min(n, 5)]
    /\ NewPart.ind = n - 1
    /\ NewPart.hir = f.hir + n
    /\ \A k \in 1..(Len(todo') - Len(todo) + 1) : todo'[k].hir = f.hir + n + 1

\* C19: a header node of level n in 1..8 is rendered with the heading color
\* H<min(n,5)>, with an indent of n-1 spaces, preceded by a newline and with
\* no bullet, ordinal or rule; its hierarchy is increased by n for the rest
\* of its handling.
C19_HeaderNoPrefix ==
    [][HeaderCall =>
          /\ HeaderAppended(Head(todo), HeaderLevel(doc[Head(todo).el].tag))
          /\ NewPart.pref = ""]_vars

\* C19 as the code has it: the header keeps the bullet or ordinal that a
\* list container set on it, and has no prefix otherwise
C19_HeaderRendered ==
    [][HeaderCall =>
          /\ HeaderAppended(Head(todo), HeaderLevel(doc[Head(todo).el].tag))
          /\ NewPart.pref = Head(todo).pref.s]_vars

\* a header of level 6 is rendered, and a header that is the child of a list
C19_Witness ==
    /\ \E part \in OutParts :
         part.fn = "h" /\ part.ind = 5 /\ part.color = H[5] /\ part.hir >= 7
    /\ \E part \in OutParts : part.fn = "h" /\ part.pref = list_pref

(***************************************************************************)
(* Claims about the out list of the formatter                              *)
(***************************************************************************)
IsPrefix(a, b) == Len(a) <= Len(b) /\ SubSeq(b, 1, Len(a)) = a

\* new is old with entries appended; the last entry of old is as it was,
\* or, if merged, has got parts appended
Appended(old, new, merged) ==
    /\ Len(new) >= Len(old)
    /\ \A i \in 1..(Len(old) - 1) : new[i] = old[i]
    /\ Len(old) > 0 =>
          IF merged THEN IsPrefix(old[Len(old)], new[Len(old)])
          ELSE new[Len(old)] = old[Len(old)]

\* the next pending call is a call of formatter
PendingCall == todo # <<>> /\ Head(todo).k = "call"

\* the call is for a paragraph whose parent is a list item without text
FixupCall == PendingCall /\ IsFixup(doc, Head(todo))

\* a call leaves the entries it found as they were, but for the fixup, which
\* appends to the last one and finds one; the out lists of the callers are
\* not touched, and the table's entry is appended
AppendOnly ==
    /\ PendingCall =>
          /\ Appended(Head(OutOf(Head(todo))), Head(out'), FixupCall)
          /\ Tail(out') = Tail(OutOf(Head(todo)))
    /\ (FixupCall /\ ferr' = "") => Len(Head(OutOf(Head(todo)))) > 0
    /\ (todo # <<>> /\ Head(todo).k = "join") =>
          Appended(Head(out), Head(out'), FALSE) /\ Tail(out') = Tail(out)
    /\ (todo # <<>> /\ Head(todo).k = "cellend") => out' = Tail(out)

\* what the text branch appends for the call, before the links are added and
\* the nested list is cut
TextAppended(first) ==
    TextBranch(doc, Head(todo), Head(OutOf(Head(todo))),
               [Globals EXCEPT !.show_links = FALSE], first).out

\* an entry is changed only by the fixup: what a call has appended stays as
\* it was appended
NoLaterChange ==
    (PendingCall /\ doc[Head(todo).el].tag # "hr" /\ ferr' = "") =>
        \E first \in FirstValues(admons) : Head(out') = TextAppended(first)

\* C20: during one run the out list is append-only: its length never
\* decreases, an entry that has another one after it is never changed, the
\* only change to an existing entry is the list-item fixup, and the fixup
\* only happens when the list is not empty.
C20_OnlyFixupChanges == [][AppendOnly /\ NoLaterChange]_vars

\* C20 for the entries a call finds: the last entry a call has appended may
\* still get the links, or lose the nested list, within that call
C20_AppendOnly == [][AppendOnly]_vars

\* a fixup has happened: the paragraph follows the list item in its entry
C20_Witness ==
    \E b \in 1..Len(out) : \E n \in 1..Len(out[b]) :
        /\ Len(out[b][n]) >= 2
        /\ out[b][n][1].fn = "plain"
        /\ out[b][n][1].pref = list_pref
        /\ out[b][n][2].fn = "p"

====
